---------------------------- MODULE Spec2Model ----------------------------
(***************************************************************************)
(* A model of the keystone decimal kernel and of the financial primitives  *)
(* built on it: the Decimal wrapper (precision-core), the oracle           *)
(* conversions, the root-finding solvers, implied volatility and the       *)
(* fixed-capacity sorted containers (interpolators and piecewise curve).   *)
(*                                                                         *)
(* Decimal mantissas are 96 bits wide and do not fit TLC's integers, so    *)
(* unsigned magnitudes are little-endian sequences of decimal digits       *)
(* (<<>> is zero, no leading zero digit).                                  *)
(***************************************************************************)
EXTENDS Integers, Sequences, FiniteSets, TLC

(***************************************************************************)
(* Unsigned magnitudes: little-endian sequences of limbs in base 10^4,     *)
(* without leading zero limbs                                              *)
(***************************************************************************)
Base == 10^4

\* the index of the highest non-zero limb, 0 if there is none
NTop(s) ==
    CHOOSE i \in 0..Len(s) :
        (i = 0 \/ s[i] # 0) /\ \A j \in (i + 1)..Len(s) : s[j] = 0

NTrim(s) == SubSeq(s, 1, NTop(s))

NZeros(n) == [i \in 1..n |-> 0]

RECURSIVE NFromInt(_)
NFromInt(n) == IF n = 0 THEN <<>> ELSE <<n % Base>> \o NFromInt(n \div Base)

NCmpAt(a, b, top) ==
    IF top = 0 THEN 0 ELSE IF a[top] < b[top] THEN -1 ELSE 1

NCmp(a, b) ==
    IF Len(a) < Len(b) THEN -1
    ELSE IF Len(a) > Len(b) THEN 1
    ELSE NCmpAt(a, b, CHOOSE i \in 0..Len(a) :
                        (i = 0 \/ a[i] # b[i]) /\ \A j \in (i + 1)..Len(a) : a[j] = b[j])

NLimb(a, i) == IF 1 <= i /\ i <= Len(a) THEN a[i] ELSE 0

NLonger(a, b) == IF Len(a) >= Len(b) THEN Len(a) ELSE Len(b)

\* the carry into limb i of a + b
NCarry(a, b, i) ==
    IF \E j \in 1..(i - 1) :
          /\ NLimb(a, j) + NLimb(b, j) >= Base
          /\ \A k \in (j + 1)..(i - 1) : NLimb(a, k) + NLimb(b, k) = Base - 1
    THEN 1 ELSE 0

NAdd(a, b) ==
    IF a = <<>> THEN NTrim(b)
    ELSE IF b = <<>> THEN NTrim(a)
    ELSE NTrim(<<>> \o [i \in 1..(NLonger(a, b) + 1) |->
                          (NLimb(a, i) + NLimb(b, i) + NCarry(a, b, i)) % Base])

\* the borrow from limb i of a - b
NBorrow(a, b, i) ==
    IF \E j \in 1..(i - 1) :
          /\ a[j] < NLimb(b, j)
          /\ \A k \in (j + 1)..(i - 1) : a[k] = NLimb(b, k)
    THEN 1 ELSE 0

\* a - b for a >= b
NSub(a, b) ==
    IF b = <<>> THEN a
    ELSE NTrim(<<>> \o [i \in 1..Len(a) |->
                          (a[i] - NLimb(b, i) - NBorrow(a, b, i) + Base) % Base])

\* a * d for 0 <= d <= Base: the low halves of the limb products plus the
\* high halves one limb up
NMulSmall(a, d) ==
    IF d = 0 \/ a = <<>> THEN <<>>
    ELSE NAdd(<<>> \o [i \in 1..Len(a) |-> (a[i] * d) % Base],
              <<0>> \o [i \in 1..Len(a) |-> (a[i] * d) \div Base])

\* s * p for p = 10^r, r < 4
NShlLimbs(s, p) ==
    NTrim(<<>> \o [i \in 1..(Len(s) + 1) |->
                     (NLimb(s, i) % (Base \div p)) * p + NLimb(s, i - 1) \div (Base \div p)])

\* a * 10^k
NShl(a, k) == IF a = <<>> \/ k = 0 THEN a
              ELSE NZeros(k \div 4) \o NShlLimbs(a, 10^(k % 4))

\* floor(s / p) for p = 10^r, r < 4
NShrLimbs(s, p) ==
    NTrim(<<>> \o [i \in 1..Len(s) |->
                     (NLimb(s, i + 1) % p) * (Base \div p) + s[i] \div p])

\* floor(a / 10^k)
NShr(a, k) == IF k \div 4 >= Len(a) THEN <<>>
              ELSE NShrLimbs(SubSeq(a, (k \div 4) + 1, Len(a)), 10^(k % 4))

\* a mod 10^k
NLow(a, k) ==
    IF k \div 4 >= Len(a) THEN a
    ELSE NTrim(SubSeq(a, 1, k \div 4) \o <<a[(k \div 4) + 1] % (10^(k % 4))>>)

\* a * (b[lo] ... b[hi]) * Base^(lo - 1)
RECURSIVE NMulRange(_, _, _, _)
NMulRange(a, b, lo, hi) ==
    IF lo = hi THEN NZeros(lo - 1) \o NMulSmall(a, b[lo])
    ELSE NAdd(NMulRange(a, b, lo, (lo + hi) \div 2),
              NMulRange(a, b, (lo + hi) \div 2 + 1, hi))

NMul(a, b) == IF a = <<>> \/ b = <<>> THEN <<>>
              ELSE NTrim(NMulRange(a, b, 1, Len(b)))

\* the number of decimal digits of a
NTopDigits(top) ==
    IF top >= 1000 THEN 4 ELSE IF top >= 100 THEN 3 ELSE IF top >= 10 THEN 2 ELSE 1

NDigits(a) == IF a = <<>> THEN 0 ELSE 4 * (Len(a) - 1) + NTopDigits(a[Len(a)])

\* the factor that brings the top limb of b to at least Base / 2
NNormalizer(b) == Base \div (b[Len(b)] + 1)

\* the quotient limb of r / b, r < b * Base, b normalized, with its product
\* by b: the estimate e from the top limbs is at most two too large
NQuotTry(r, b, e, prod) ==
    IF NCmp(prod, r) <= 0 THEN [ql |-> e, prod |-> prod]
    ELSE IF NCmp(NSub(prod, b), r) <= 0 THEN [ql |-> e - 1, prod |-> NSub(prod, b)]
    ELSE [ql |-> e - 2, prod |-> NSub(NSub(prod, b), b)]

NQuotFix(r, b, e) == NQuotTry(r, b, e, NMulSmall(b, e))

NQuotEstimate(r, b) ==
    (NLimb(r, Len(b) + 1) * Base + NLimb(r, Len(b))) \div b[Len(b)]

NQuotLimb(r, b) ==
    NQuotFix(r, b, IF NQuotEstimate(r, b) >= Base THEN Base - 1
                   ELSE NQuotEstimate(r, b))

NTrimQuot(x) == [q |-> NTrim(x.q), r |-> x.r]

\* one step of long division: the next limb of the dividend joins the
\* remainder, and the quotient limb goes in front of those found so far
NDivPut(q, cur, t) == [q |-> <<t.ql>> \o q, r |-> NSub(cur, t.prod)]

NDivCur(q, cur, b) == NDivPut(q, cur, NQuotLimb(cur, b))

\* nothing left over and a zero limb: the quotient limb is zero
NDivStep(above, limb, b) ==
    IF above.r = <<>> /\ limb = 0 THEN [q |-> <<0>> \o above.q, r |-> <<>>]
    ELSE NDivCur(above.q, NTrim(<<limb>> \o above.r), b)

\* long division of a by b (normalized) down to the limb at index i; the
\* limbs above index top are the first remainder
RECURSIVE NDivFrom(_, _, _, _)
NDivFrom(a, b, i, top) ==
    IF i > top THEN [q |-> <<>>, r |-> NTrim(SubSeq(a, top + 1, Len(a)))]
    ELSE NDivStep(NDivFrom(a, b, i + 1, top), a[i], b)

\* quotient and remainder of a / b for a normalized b
NDivMod(a, b) ==
    IF Len(a) < Len(b) THEN [q |-> <<>>, r |-> a]
    ELSE NTrimQuot(NDivFrom(a, b, 1, Len(a) - Len(b) + 1))

NIsOdd(a) == a # <<>> /\ a[1] % 2 = 1

\* the number of trailing decimal zeros of a non-zero magnitude, at most k
NTrailingZeros(a, k) ==
    CHOOSE z \in 0..k : NLow(a, z) = <<>> /\ (z = k \/ NLow(a, z + 1) # <<>>)

(***************************************************************************)
(* Decimal: sign, 96-bit mantissa, scale in 0..MAX_SCALE.  The wrapper in  *)
(* decimal.rs forwards each operation to rust_decimal; the arithmetic      *)
(* below is that library's contract as the specification states it         *)
(* (exact results at bounded scale, HalfEven rounding of what does not     *)
(* fit, None on overflow or division by zero).                             *)
(***************************************************************************)
MAX_SCALE == 28

\* 2^96 - 1 = 79228162514264337593543950335, the mantissa of Decimal::MAX
MaxMantissa == <<335, 4395, 5935, 4337, 1426, 1625, 9228, 7>>

\* 2^63 - 1 = 9223372036854775807 and 2^63, the bounds of i64
I64MaxMag == <<5807, 5477, 368, 3372, 922>>
I64MinMag == <<5808, 5477, 368, 3372, 922>>

None == [some |-> FALSE]
Some(v) == [some |-> TRUE, v |-> v]
Ok(v) == [ok |-> TRUE, v |-> v]
Err(e) == [ok |-> FALSE, err |-> e]
ok_or(o, e) == IF o.some THEN Ok(o.v) ELSE Err(e)

Dec(neg, m, scale) == [neg |-> neg /\ m # <<>>, m |-> m, scale |-> scale]
Signed(neg, m) == [neg |-> neg /\ m # <<>>, m |-> m]

DecimalNew(mantissa, scale) ==
    Dec(mantissa < 0, NFromInt(IF mantissa < 0 THEN -mantissa ELSE mantissa), scale)
DecimalFrom(n) == DecimalNew(n, 0)
\* From<i64> for a value given as sign and magnitude
DecimalFromSigned(n) == Dec(n.neg, n.m, 0)

ZERO == DecimalFrom(0)
ONE == DecimalFrom(1)
NEGATIVE_ONE == DecimalFrom(-1)
MAX == Dec(FALSE, MaxMantissa, 0)
MIN == Dec(TRUE, MaxMantissa, 0)

is_zero(d) == d.m = <<>>
is_negative(d) == d.neg
is_positive(d) == ~d.neg /\ ~is_zero(d)
abs(d) == Dec(FALSE, d.m, d.scale)
Neg(d) == Dec(~d.neg, d.m, d.scale)

ScaleOf(a, b) == IF a.scale >= b.scale THEN a.scale ELSE b.scale

\* the mantissa of a at the scale of the finer of a and b
Aligned(a, b) == NShl(a.m, ScaleOf(a, b) - a.scale)

CmpAligned(aneg, am, bneg, bm) ==
    IF aneg /\ ~bneg THEN -1
    ELSE IF ~aneg /\ bneg THEN 1
    ELSE IF aneg THEN NCmp(bm, am)
    ELSE NCmp(am, bm)

\* Ord for Decimal: -1, 0 or 1, by rational value
cmp(a, b) == CmpAligned(a.neg, Aligned(a, b), b.neg, Aligned(b, a))

Lt(a, b) == cmp(a, b) < 0
Le(a, b) == cmp(a, b) <= 0
Gt(a, b) == cmp(a, b) > 0
Ge(a, b) == cmp(a, b) >= 0
Eq(a, b) == cmp(a, b) = 0

min(a, b) == IF Le(a, b) THEN a ELSE b
max(a, b) == IF Ge(a, b) THEN a ELSE b

\* q or q + 1: half compares what was dropped with one half
RoundUp(q, half) ==
    IF half > 0 \/ (half = 0 /\ NIsOdd(q)) THEN NAdd(q, <<1>>) ELSE q

\* m / 10^k rounded to nearest, ties to even
RoundHalfEven(m, k) ==
    IF k = 0 THEN m
    ELSE RoundUp(NShr(m, k), NCmp(NLow(m, k), NShl(<<5>>, k - 1)))

Excess(a, b) == IF a > b THEN a - b ELSE 0
Larger(a, b) == IF a >= b THEN a ELSE b
Smaller(a, b) == IF a <= b THEN a ELSE b

\* the most precise mantissa of m / 10^scale that fits 96 bits at a scale of
\* at most MAX_SCALE: k digits are dropped, k no less than the scale and the
\* width require, and one more if the mantissa is still too large
FitRounded(neg, scale, k, r, r1) ==
    IF NCmp(r, MaxMantissa) <= 0 THEN Some(Dec(neg, r, scale - k))
    ELSE IF k + 1 > scale THEN None
    ELSE Some(Dec(neg, r1, scale - k - 1))

FitFrom(neg, m, scale, k) ==
    IF k > scale THEN None
    ELSE FitRounded(neg, scale, k, RoundHalfEven(m, k), RoundHalfEven(m, k + 1))

Fit(neg, m, scale) ==
    FitFrom(neg, m, scale, Larger(Excess(scale, MAX_SCALE), Excess(NDigits(m), 29)))

AddAligned(aneg, am, bneg, bm, scale) ==
    IF aneg = bneg THEN Fit(aneg, NAdd(am, bm), scale)
    ELSE IF NCmp(am, bm) >= 0 THEN Fit(aneg, NSub(am, bm), scale)
    ELSE Fit(bneg, NSub(bm, am), scale)

checked_add(a, b) ==
    AddAligned(a.neg, Aligned(a, b), b.neg, Aligned(b, a), ScaleOf(a, b))

checked_sub(a, b) == checked_add(a, Neg(b))

checked_mul(a, b) == Fit(a.neg # b.neg, NMul(a.m, b.m), a.scale + b.scale)

\* am * 10^k / bm for the largest k <= k0 whose quotient fits 96 bits
RECURSIVE DivFit(_, _, _)
DivFitTry(am, bm, k, d) ==
    IF k = 0 \/ NCmp(d.q, MaxMantissa) <= 0 THEN [k |-> k, q |-> d.q, r |-> d.r]
    ELSE DivFit(am, bm, k - 1)

DivFit(am, bm, k) == DivFitTry(am, bm, k, NDivMod(NShl(am, k), bm))

DivStrip(neg, q, scale, z) == Fit(neg, NShr(q, z), scale - z)

\* an exact quotient keeps no trailing zeros past the scale it started from;
\* an inexact one rounds HalfEven
DivRound(neg, bm, base, d) ==
    IF d.r = <<>> THEN DivStrip(neg, d.q, base + d.k, NTrailingZeros(d.q, d.k))
    ELSE Fit(neg, RoundUp(d.q, NCmp(NMulSmall(d.r, 2), bm)), base + d.k)

\* the digits MAX_SCALE and 96 bits leave room for
DivRoom(am, bm, base) ==
    Smaller(MAX_SCALE - base, Excess(29 + NDigits(bm), NDigits(am)))

DivFrom(neg, am, bm, base, d0) ==
    IF d0.r = <<>> THEN Fit(neg, d0.q, base)
    ELSE DivRound(neg, bm, base, DivFit(am, bm, DivRoom(am, bm, base)))

\* a / b at scale a.scale - b.scale, the dividend scaled up when that is
\* negative; the quotient then carries as many further digits as the
\* division needs, MAX_SCALE allows and 96 bits hold (bm normalized)
DivScaled(neg, am, bm, base) == DivFrom(neg, am, bm, base, NDivMod(am, bm))

\* dividend and divisor times f, which changes neither the quotient nor how
\* the remainder compares with half the divisor
DivNormal(neg, am, bm, base, f) ==
    DivScaled(neg, NMulSmall(am, f), NMulSmall(bm, f), base)

checked_div(a, b) ==
    IF is_zero(b) THEN None
    ELSE DivNormal(a.neg # b.neg, NShl(a.m, Excess(b.scale, a.scale)), b.m,
                   Excess(a.scale, b.scale), NNormalizer(b.m))

try_add(a, b) == ok_or(checked_add(a, b), "Overflow")
try_sub(a, b) == ok_or(checked_sub(a, b), "Overflow")
try_mul(a, b) == ok_or(checked_mul(a, b), "Overflow")
try_div(a, b) == IF is_zero(b) THEN Err("DivisionByZero")
                 ELSE ok_or(checked_div(a, b), "Overflow")

\* round(dp, RoundingMode::TowardZero)
round_toward_zero(d, dp) ==
    IF d.scale <= dp THEN d
    ELSE Dec(d.neg, NShr(d.m, d.scale - dp), dp)

\* (mantissa, scale) with the mantissa signed
to_parts(d) == [mantissa |-> Signed(d.neg, d.m), scale |-> d.scale]

\* i64::try_from(i128)
i64_try_from(n) ==
    IF NCmp(n.m, IF n.neg THEN I64MinMag ELSE I64MaxMag) <= 0
    THEN Ok(n) ELSE Err("TryFromIntError")


\* operands that may already have failed: a.op(b?)? returns the first error
RAdd(ra, rb) == IF ~ra.ok THEN ra ELSE IF ~rb.ok THEN rb ELSE try_add(ra.v, rb.v)
RSub(ra, rb) == IF ~ra.ok THEN ra ELSE IF ~rb.ok THEN rb ELSE try_sub(ra.v, rb.v)
RMul(ra, rb) == IF ~ra.ok THEN ra ELSE IF ~rb.ok THEN rb ELSE try_mul(ra.v, rb.v)
RDiv(ra, rb) == IF ~ra.ok THEN ra ELSE IF ~rb.ok THEN rb ELSE try_div(ra.v, rb.v)

(***************************************************************************)
(* Transcendental functions.  exp, try_exp and powi are the wrapper's;     *)
(* checked_exp is the library's series, which the wrapper reaches through  *)
(* the library's exp(): that one panics where checked_exp has no value.    *)
(***************************************************************************)
\* a panic: a value that is neither Some nor Ok, so that ? hands it on
Panic(msg) == [some |-> FALSE, ok |-> FALSE, panic |-> msg]

IsPanic(r) == "panic" \in DOMAIN r

\* the library's tolerance for its exp series, 0.0000002
EXP_TOLERANCE == DecimalNew(2, 7)

\* the last factorial of the library's table, 27!
ExpTerms == 27

\* the library's operators +, - and /: the value, or a panic
expect(o, msg) == IF o.some THEN o.v ELSE Panic(msg)

PAdd(a, b) ==
    IF IsPanic(a) THEN a ELSE IF IsPanic(b) THEN b
    ELSE expect(checked_add(a, b), "Addition overflowed")

PSub(a, b) ==
    IF IsPanic(a) THEN a ELSE IF IsPanic(b) THEN b
    ELSE expect(checked_sub(a, b), "Subtraction overflowed")

PMul(a, b) ==
    IF IsPanic(a) THEN a ELSE IF IsPanic(b) THEN b
    ELSE expect(checked_mul(a, b), "Multiplication overflowed")

PDiv(a, b) ==
    IF IsPanic(a) THEN a ELSE IF IsPanic(b) THEN b
    ELSE IF is_zero(b) THEN Panic("Division by zero")
    ELSE expect(checked_div(a, b), "Division overflowed")

\* the locals of the library's series 1 + x + x^2/2! + ... for x > 0 as its
\* loop starts: term is x^(k-1), result the sum so far, fact is k!
exp_locals(x) ==
    [x |-> x, term |-> x, result |-> PAdd(x, ONE), k |-> 2, fact |-> <<2>>,
     done |-> FALSE, value |-> None]

exp_return(l, e) == [l EXCEPT !.done = TRUE, !.value = e]

\* next is result + term / k!; the loop ends when that moved the sum by no
\* more than the tolerance, or with the last factorial of the table
exp_next(l, term, next) ==
    IF IsPanic(next) THEN exp_return(l, next)
    ELSE IF IsPanic(PSub(next, l.result)) THEN exp_return(l, PSub(next, l.result))
    ELSE IF Le(abs(PSub(next, l.result)), EXP_TOLERANCE) \/ l.k = ExpTerms
    THEN exp_return(l, Some(next))
    ELSE [l EXCEPT !.term = term, !.result = next, !.k = l.k + 1,
                   !.fact = NMulSmall(l.fact, l.k + 1)]

\* term = self.checked_mul(term)?
exp_term(l, term) ==
    IF ~term.some THEN exp_return(l, None)
    ELSE exp_next(l, term.v, PAdd(l.result, PDiv(term.v, Dec(FALSE, l.fact, 0))))

\* one pass of the loop
exp_iter(l) == exp_term(l, checked_mul(l.x, l.term))

\* the loop, from the locals l to the value it leaves
RECURSIVE exp_loop(_)
exp_loop(l) == IF l.done THEN l.value ELSE exp_loop(exp_iter(l))

\* for x < 0 the library takes 1 / e, e its value for |x|
exp_reciprocal(x, e) ==
    IF IsPanic(e) \/ ~e.some \/ ~is_negative(x) THEN e ELSE checked_div(ONE, e.v)

\* the library's checked_exp
checked_exp(x) ==
    IF is_zero(x) THEN Some(ONE)
    ELSE exp_reciprocal(x, exp_loop(exp_locals(abs(x))))

\* Some(Self(self.0.exp())): the library's exp panics where checked_exp
\* has no value
exp_unwrap(x, e) ==
    IF IsPanic(e) THEN e
    ELSE IF ~e.some
    THEN Panic(IF is_negative(x) THEN "Exp underflowed" ELSE "Exp overflowed")
    ELSE e

exp(self) ==
    IF Gt(self, DecimalFrom(100)) THEN None
    ELSE IF Lt(self, DecimalFrom(-100)) THEN Some(ZERO)
    ELSE exp_unwrap(self, checked_exp(self))

\* .ok_or(ArithmeticError::Overflow), a panic passing through
ok_or_overflow(o) == IF IsPanic(o) THEN o ELSE ok_or(o, "Overflow")

try_exp(self) == ok_or_overflow(exp(self))

(***************************************************************************)
(* Root-finding solvers (financial-calc/src/solver.rs)                     *)
(***************************************************************************)
VARIABLES solver, iv, curve, calc

vars == <<solver, iv, curve, calc>>

DEFAULT_MAX_ITER == 100

default_tolerance == DecimalNew(1, 12)

\* the closures handed to the solvers: the functions of the module's tests
\* and a constant function, which has no root and a zero derivative
Functions == {"sqrt2", "cube8", "const"}

F(f, x) ==
    CASE f = "sqrt2" -> RSub(try_mul(x, x), Ok(DecimalFrom(2)))
      [] f = "cube8" -> RSub(RMul(try_mul(x, x), Ok(x)), Ok(DecimalFrom(8)))
      [] f = "const" -> Ok(ONE)

DF(f, x) ==
    CASE f = "sqrt2" -> try_mul(x, DecimalFrom(2))
      [] f = "cube8" -> RMul(try_mul(x, x), Ok(DecimalFrom(3)))
      [] f = "const" -> Ok(ZERO)

SolverResult(root, iterations, residual, converged) ==
    [root |-> root, iterations |-> iterations, residual |-> residual,
     converged |-> converged]

\* a call that has returned r
Return(s, r) == [s EXCEPT !.pc = "done", !.result = r]

\* a loop body that carries its locals on and forgets to count the pass
ContinueUncounted(s, w) == [s EXCEPT !.w = w]

\* the end of a loop body: the locals w carried into the next pass
Continue(s, w) == [s EXCEPT !.w = w, !.iterations = @ + 1]

NoResult == Err("-")

\* n more calls of the closure f have been made
Evaluated(s, n) == [s EXCEPT !.evals = @ + n]

\* the calls of f made by f(a)? followed by f(b)?
EndEvaluations(f, a) == IF F(f, a).ok THEN 2 ELSE 1

\* the cap branch of newton_raphson's loop
newton_at_cap(x, iterations, fx) == Ok(SolverResult(x, iterations, fx, FALSE))

\* x = x.try_sub(step)?; iterations += 1
newton_update(s, x2) ==
    IF ~x2.ok THEN Return(s, x2) ELSE Continue(s, [x |-> x2.v])

\* from df(x)? to the end of the loop body
newton_derivative(s, x, fx, dfx) ==
    IF ~dfx.ok THEN Return(s, dfx)
    ELSE IF Lt(abs(dfx.v), DecimalNew(1, 20))
    THEN Return(s, Ok(SolverResult(x, s.iterations, fx, FALSE)))
    ELSE newton_update(s, RSub(Ok(x), try_div(fx, dfx.v)))

\* the loop body of newton_raphson once f(x) is known
newton_residual(s, x, fx) ==
    IF ~fx.ok THEN Return(s, fx)
    ELSE IF Lt(abs(fx.v), s.tol)
    THEN Return(s, Ok(SolverResult(x, s.iterations, fx.v, TRUE)))
    ELSE IF s.iterations >= s.max
    THEN Return(s, newton_at_cap(x, s.iterations, fx.v))
    ELSE newton_derivative(s, x, fx.v, DF(s.f, x))

\* one pass through the loop of newton_raphson
newton_raphson_step(s) == newton_residual(Evaluated(s, 1), s.w.x, F(s.f, s.w.x))

\* the bracket test of bisection and brent
\* a bracket test that lets every pair of end values through
any_bracket(fa, fb) == FALSE

no_bracket(fa, fb) ==
    (is_positive(fa) = is_positive(fb)) /\ ~is_zero(fa) /\ ~is_zero(fb)

midpoint(a, b) == RDiv(try_add(a, b), Ok(DecimalFrom(2)))

\* bisection before its loop, f(a) and f(b) known
bisection_bracket(s, a, b, fa, fb) ==
    IF ~fa.ok THEN Return(s, fa)
    ELSE IF ~fb.ok THEN Return(s, fb)
    ELSE IF no_bracket(fa.v, fb.v) THEN Return(s, Err("DivisionByZero"))
    ELSE [s EXCEPT !.pc = "loop", !.w = [a |-> a, b |-> b, fa |-> fa.v]]

bisection_enter(s, a, b) ==
    bisection_bracket(Evaluated(s, EndEvaluations(s.f, a)), a, b, F(s.f, a), F(s.f, b))

\* bisection after its loop
bisection_result(s, mid, fmid) ==
    IF ~fmid.ok THEN fmid
    ELSE Ok(SolverResult(mid, s.iterations, fmid.v, FALSE))

bisection_last(s, mid) ==
    IF ~mid.ok THEN mid ELSE bisection_result(s, mid.v, F(s.f, mid.v))

\* a solver that reports the cap as an error instead
cap_is_error(s) == Err("MaxIterations")

bisection_at_cap(s) == bisection_last(s, midpoint(s.w.a, s.w.b))

\* the halving at the end of bisection's loop body
bisection_halve(s, mid, fmid) ==
    IF is_positive(s.w.fa) = is_positive(fmid)
    THEN Continue(s, [a |-> mid, b |-> s.w.b, fa |-> fmid])
    ELSE Continue(s, [a |-> s.w.a, b |-> mid, fa |-> s.w.fa])

\* the second operand of the convergence test: b.try_sub(a)?.abs() < tol
bisection_width(s, mid, fmid, width) ==
    IF ~width.ok THEN Return(s, width)
    ELSE IF Lt(abs(width.v), s.tol)
    THEN Return(s, Ok(SolverResult(mid, s.iterations, fmid, TRUE)))
    ELSE bisection_halve(s, mid, fmid)

bisection_residual(s, mid, fmid) ==
    IF ~fmid.ok THEN Return(s, fmid)
    ELSE IF Lt(abs(fmid.v), s.tol)
    THEN Return(s, Ok(SolverResult(mid, s.iterations, fmid.v, TRUE)))
    ELSE bisection_width(s, mid, fmid.v, try_sub(s.w.b, s.w.a))

bisection_mid(s, mid) ==
    IF ~mid.ok THEN Return(s, mid)
    ELSE bisection_residual(Evaluated(s, 1), mid.v, F(s.f, mid.v))

\* one pass through the loop of bisection, or the code after it
bisection_step(s) ==
    IF s.iterations >= s.max
    THEN Return(Evaluated(s, IF midpoint(s.w.a, s.w.b).ok THEN 1 ELSE 0),
                bisection_at_cap(s))
    ELSE bisection_mid(s, midpoint(s.w.a, s.w.b))

\* secant before its loop, f(x0) and f(x1) known
secant_start(s, x0, x1, f0, f1) ==
    IF ~f0.ok THEN Return(s, f0)
    ELSE IF ~f1.ok THEN Return(s, f1)
    ELSE [s EXCEPT !.pc = "loop",
                   !.w = [x0 |-> x0, x1 |-> x1, f0 |-> f0.v, f1 |-> f1.v]]

secant_enter(s, x0, x1) ==
    secant_start(Evaluated(s, EndEvaluations(s.f, x0)), x0, x1, F(s.f, x0), F(s.f, x1))

\* secant after its loop
secant_at_cap(s) == Ok(SolverResult(s.w.x1, s.iterations, s.w.f1, FALSE))

secant_shift(s, x2, f2) ==
    IF ~f2.ok THEN Return(s, f2)
    ELSE Continue(s, [x0 |-> s.w.x1, x1 |-> x2, f0 |-> s.w.f1, f1 |-> f2.v])

secant_next(s, x2) ==
    IF ~x2.ok THEN Return(s, x2)
    ELSE secant_shift(Evaluated(s, 1), x2.v, F(s.f, x2.v))

\* from the flatness test to the new estimate
secant_slope(s, df) ==
    IF ~df.ok THEN Return(s, df)
    ELSE IF Lt(abs(df.v), DecimalNew(1, 20))
    THEN Return(s, Ok(SolverResult(s.w.x1, s.iterations, s.w.f1, FALSE)))
    ELSE secant_next(s, RSub(Ok(s.w.x1),
                             RDiv(RMul(Ok(s.w.f1), try_sub(s.w.x1, s.w.x0)), df)))

\* one pass through the loop of secant, or the code after it
secant_step(s) ==
    IF s.iterations >= s.max THEN Return(s, secant_at_cap(s))
    ELSE IF Lt(abs(s.w.f1), s.tol)
    THEN Return(s, Ok(SolverResult(s.w.x1, s.iterations, s.w.f1, TRUE)))
    ELSE secant_slope(s, try_sub(s.w.f1, s.w.f0))

TWO == DecimalFrom(2)

\* brent before its loop, the ends ordered so that |f(a)| >= |f(b)|
brent_start(s, a, b, fa, fb, d) ==
    IF ~d.ok THEN Return(s, d)
    ELSE [s EXCEPT !.pc = "loop",
                   !.w = [a |-> a, b |-> b, c |-> a, fa |-> fa, fb |-> fb,
                          fc |-> fa, d |-> d.v, e |-> d.v]]

brent_swap(s, a, b, fa, fb) ==
    IF Lt(abs(fa), abs(fb)) THEN brent_start(s, b, a, fb, fa, try_sub(a, b))
    ELSE brent_start(s, a, b, fa, fb, try_sub(b, a))

brent_bracket(s, a, b, fa, fb) ==
    IF ~fa.ok THEN Return(s, fa)
    ELSE IF ~fb.ok THEN Return(s, fb)
    ELSE IF no_bracket(fa.v, fb.v) THEN Return(s, Err("DivisionByZero"))
    ELSE brent_swap(s, a, b, fa.v, fb.v)

brent_enter(s, a, b) ==
    brent_bracket(Evaluated(s, EndEvaluations(s.f, a)), a, b, F(s.f, a), F(s.f, b))

\* brent after its loop
brent_at_cap(s) == Ok(SolverResult(s.w.b, s.iterations, s.w.fb, FALSE))

\* s = num / den, or the bisection step when den is too small
brent_ratio(xm, num, den) ==
    IF ~num.ok THEN num
    ELSE IF ~den.ok THEN den
    ELSE IF Gt(abs(den.v), DecimalNew(1, 20)) THEN try_div(num.v, den.v)
    ELSE Ok(xm)

\* inverse quadratic interpolation
brent_quadratic(w, xm, r, q, p) ==
    IF ~r.ok THEN r
    ELSE IF ~q.ok THEN q
    ELSE IF ~p.ok THEN p
    ELSE brent_ratio(xm,
           RSub(RMul(p, RMul(try_mul(TWO, xm), RSub(q, Ok(ONE)))),
                RMul(try_sub(w.b, w.a), RSub(q, Ok(ONE)))),
           RMul(RMul(RSub(q, Ok(ONE)), RSub(r, Ok(ONE))), RSub(p, Ok(ONE))))

\* the interpolated step s: linear when a and c coincide
brent_s(w, xm, ac) ==
    IF ~ac.ok THEN ac
    ELSE IF Lt(abs(ac.v), DecimalNew(1, 20))
    THEN RDiv(RMul(Ok(w.fb), try_sub(w.b, w.a)), try_sub(w.fa, w.fb))
    ELSE brent_quadratic(w, xm, try_div(w.fb, w.fc), try_div(w.fa, w.fc),
                         try_div(w.fb, w.fa))

\* the new d and e: the interpolated step if it is acceptable
brent_accept(w, xm, sv, bound1, bound2) ==
    IF ~sv.ok THEN sv
    ELSE IF ~bound1.ok THEN bound1
    ELSE IF ~bound2.ok THEN bound2
    ELSE IF Lt(abs(sv.v), min(abs(bound1.v), bound2.v))
    THEN Ok([d |-> sv.v, e |-> w.d])
    ELSE Ok([d |-> xm, e |-> xm])

\* the interpolation attempt of brent's loop: the new d and e
brent_interpolate(w, tol1, xm) ==
    IF Ge(abs(w.e), tol1) /\ Gt(abs(w.fa), abs(w.fb))
    THEN brent_accept(w, xm, brent_s(w, xm, try_sub(w.a, w.c)),
                      RSub(RDiv(try_mul(DecimalFrom(3), xm), Ok(DecimalFrom(4))),
                           try_div(tol1, TWO)),
                      try_div(abs(w.e), TWO))
    ELSE Ok([d |-> xm, e |-> xm])

\* the bracket restored after b has moved to b1
brent_rebracket(s, w, b1, fb1, d1) ==
    IF ~d1.ok THEN Return(s, d1)
    ELSE Continue(s, [a |-> w.b, b |-> b1, c |-> w.b, fa |-> w.fb, fb |-> fb1,
                      fc |-> w.fb, d |-> d1.v, e |-> d1.v])

brent_evaluated(s, w, d, e, b1, fb1) ==
    IF ~fb1.ok THEN Return(s, fb1)
    ELSE IF (is_positive(fb1.v) /\ is_positive(w.fc))
            \/ (is_negative(fb1.v) /\ is_negative(w.fc))
    THEN brent_rebracket(s, w, b1, fb1.v, try_sub(b1, w.b))
    ELSE Continue(s, [a |-> w.b, b |-> b1, c |-> w.c, fa |-> w.fb, fb |-> fb1.v,
                      fc |-> w.fc, d |-> d, e |-> e])

brent_moved(s, w, d, e, b1) ==
    IF ~b1.ok THEN Return(s, b1)
    ELSE brent_evaluated(Evaluated(s, 1), w, d, e, b1.v, F(s.f, b1.v))

\* b moves by d, or by tol1 towards the bracket when d is too small
brent_move(b, d, tol1, xm) ==
    IF Gt(abs(d), tol1) THEN try_add(b, d)
    ELSE RAdd(Ok(b), try_mul(IF is_positive(xm) THEN ONE ELSE NEGATIVE_ONE, tol1))

brent_stepped(s, w, tol1, xm, step) ==
    IF ~step.ok THEN Return(s, step)
    ELSE brent_moved(s, w, step.v.d, step.v.e, brent_move(w.b, step.v.d, tol1, xm))

\* the second convergence test of brent's loop
brent_toleranced(s, w, tol1, xm) ==
    IF ~tol1.ok THEN Return(s, tol1)
    ELSE IF ~xm.ok THEN Return(s, xm)
    ELSE IF Le(abs(xm.v), tol1.v) \/ Lt(abs(w.fb), s.tol)
    THEN Return(s, Ok(SolverResult(w.b, s.iterations, w.fb, TRUE)))
    ELSE brent_stepped(s, w, tol1.v, xm.v, brent_interpolate(w, tol1.v, xm.v))

brent_ordered(s, w) ==
    brent_toleranced(s, w,
        RAdd(RMul(try_mul(TWO, DecimalNew(1, 15)), Ok(abs(w.b))), try_div(s.tol, TWO)),
        RDiv(try_sub(w.c, w.b), Ok(TWO)))

\* the rotation at the top of brent's loop body when |fa| < |fb|
brent_order(w) ==
    IF Lt(abs(w.fa), abs(w.fb))
    THEN [w EXCEPT !.a = w.b, !.b = w.c, !.c = w.b,
                   !.fa = w.fb, !.fb = w.fc, !.fc = w.fb]
    ELSE w

\* one pass through the loop of brent, or the code after it
brent_step(s) ==
    IF s.iterations >= s.max THEN Return(s, brent_at_cap(s))
    ELSE IF Lt(abs(s.w.fb), s.tol)
    THEN Return(s, Ok(SolverResult(s.w.b, s.iterations, s.w.fb, TRUE)))
    ELSE brent_ordered(s, brent_order(s.w))

(***************************************************************************)
(* The solver calls the model makes                                        *)
(***************************************************************************)
\* the largest explicit max_iter argument
MaxIterArg == 3

\* the largest initial guess or bracket end
MaxGuess == 3

Guesses == {DecimalFrom(n) : n \in 1..MaxGuess}

\* tolerance arguments
Tolerances == {None, Some(ZERO)}

\* max_iter arguments
MaxIters == {None} \cup {Some(n) : n \in 0..MaxIterArg}

SolverIdle ==
    [method |-> "none", f |-> "const", tol |-> ZERO, max |-> 0, arg |-> <<>>,
     pc |-> "idle", iterations |-> 0, evals |-> 0, w |-> <<>>, result |-> NoResult]

\* the first two lines of every solver: the defaults of the optional arguments
Call(method, f, tolerance, max_iter, arg) ==
    [SolverIdle EXCEPT !.method = method, !.f = f, !.arg = arg,
        !.tol = IF tolerance.some THEN tolerance.v ELSE default_tolerance,
        !.max = IF max_iter.some THEN max_iter.v ELSE DEFAULT_MAX_ITER]

NewtonCall ==
    /\ solver.pc = "idle"
    /\ \E f \in Functions, x0 \in Guesses, tol \in Tolerances, cap \in MaxIters :
         solver' = [Call("newton_raphson", f, tol, cap, <<x0>>)
                      EXCEPT !.pc = "loop", !.w = [x |-> x0]]
    /\ UNCHANGED <<iv, curve, calc>>

NewtonStep ==
    /\ solver.pc = "loop" /\ solver.method = "newton_raphson"
    /\ solver' = newton_raphson_step(solver)
    /\ UNCHANGED <<iv, curve, calc>>

BisectionCall ==
    /\ solver.pc = "idle"
    /\ \E f \in Functions, a \in Guesses, b \in Guesses, tol \in Tolerances,
          cap \in MaxIters :
         solver' = bisection_enter(Call("bisection", f, tol, cap, <<a, b>>), a, b)
    /\ UNCHANGED <<iv, curve, calc>>

BisectionStep ==
    /\ solver.pc = "loop" /\ solver.method = "bisection"
    /\ solver' = bisection_step(solver)
    /\ UNCHANGED <<iv, curve, calc>>

BrentCall ==
    /\ solver.pc = "idle"
    /\ \E f \in Functions, a \in Guesses, b \in Guesses, tol \in Tolerances,
          cap \in MaxIters :
         solver' = brent_enter(Call("brent", f, tol, cap, <<a, b>>), a, b)
    /\ UNCHANGED <<iv, curve, calc>>

BrentStep ==
    /\ solver.pc = "loop" /\ solver.method = "brent"
    /\ solver' = brent_step(solver)
    /\ UNCHANGED <<iv, curve, calc>>

SecantCall ==
    /\ solver.pc = "idle"
    /\ \E f \in Functions, x0 \in Guesses, x1 \in Guesses, tol \in Tolerances,
          cap \in MaxIters :
         solver' = secant_enter(Call("secant", f, tol, cap, <<x0, x1>>), x0, x1)
    /\ UNCHANGED <<iv, curve, calc>>

SecantStep ==
    /\ solver.pc = "loop" /\ solver.method = "secant"
    /\ solver' = secant_step(solver)
    /\ UNCHANGED <<iv, curve, calc>>

InitSolver ==
    /\ solver = SolverIdle
    /\ iv = <<>>
    /\ curve = <<>>
    /\ calc = <<>>

NextSolver ==
    \/ NewtonCall \/ NewtonStep
    \/ BisectionCall \/ BisectionStep
    \/ BrentCall \/ BrentStep
    \/ SecantCall \/ SecantStep

SpecSolver == InitSolver /\ [][NextSolver]_vars

(***************************************************************************)
(* Properties of the solvers                                               *)
(***************************************************************************)
\* the estimate a solver holds when it leaves its loop
LastEstimate(s) ==
    CASE s.method = "newton_raphson" -> Ok(s.w.x)
      [] s.method = "bisection" -> midpoint(s.w.a, s.w.b)
      [] s.method = "brent" -> Ok(s.w.b)
      [] s.method = "secant" -> Ok(s.w.x1)

\* the call has returned from inside or after its loop
Returned == solver.pc = "done" /\ solver.w # <<>>

\* the call has returned with the iteration count at the cap and without the
\* tolerance test of that pass met (newton_raphson tests the tolerance before
\* the cap; the other three test the cap first)
SlowConvergence ==
    /\ Returned
    /\ solver.iterations >= solver.max
    /\ solver.method = "newton_raphson" =>
          /\ F(solver.f, solver.w.x).ok
          /\ ~Lt(abs(F(solver.f, solver.w.x).v), solver.tol)

\* C1: a solver that reaches its iteration cap returns no error: it returns
\* Ok with converged = false, the iteration count, the last estimate as the
\* root and f at that estimate as the residual.
C1_CapIsNotAnError ==
    SlowConvergence =>
        /\ solver.result.ok
        /\ ~solver.result.v.converged
        /\ solver.result.v.iterations = solver.iterations
        /\ Ok(solver.result.v.root) = LastEstimate(solver)
        /\ Ok(solver.result.v.residual) = F(solver.f, solver.result.v.root)

\* bisection has run out the default cap of 100 passes
C1_Witness ==
    /\ SlowConvergence
    /\ solver.method = "bisection"
    /\ solver.iterations = DEFAULT_MAX_ITER
    /\ solver.result.ok
    /\ ~solver.result.v.converged

(***************************************************************************)
(* Interpolators (financial-calc/src/interpolation.rs) and the piecewise   *)
(* term structure (financial-calc/src/term_structure.rs)                   *)
(***************************************************************************)
MAX_INTERP_POINTS == 32

MAX_CURVE_NODES == 32

DataPoint(x, y) == [x |-> x, y |-> y]

CurveNode(time, rate) == [time |-> time, rate |-> rate]

\* the unit value of Ok(())
Unit == <<>>

\* a call op of the container c has returned r
Called(c, op, r) == [c EXCEPT !.op = op, !.result = r]

\* no container yet
NoCurve == [kind |-> "none", count |-> 0, op |-> "none", result |-> Ok(Unit)]

LinearNew ==
    [kind |-> "Linear", points |-> [i \in 0..(MAX_INTERP_POINTS - 1) |-> None],
     count |-> 0, op |-> "new", result |-> Ok(Unit)]

LogLinearNew ==
    [kind |-> "LogLinear", points |-> [i \in 0..(MAX_INTERP_POINTS - 1) |-> None],
     count |-> 0, op |-> "new", result |-> Ok(Unit)]

\* succeeded records whether compute has returned Ok since new()
CubicSplineNew ==
    [kind |-> "CubicSpline", points |-> [i \in 0..(MAX_INTERP_POINTS - 1) |-> None],
     second_derivs |-> [i \in 0..(MAX_INTERP_POINTS - 1) |-> ZERO],
     count |-> 0, computed |-> FALSE, succeeded |-> FALSE,
     op |-> "new", result |-> Ok(Unit)]

PiecewiseTermStructureNew ==
    [kind |-> "PiecewiseTermStructure",
     nodes |-> [i \in 0..(MAX_CURVE_NODES - 1) |-> None],
     count |-> 0, op |-> "new", result |-> Ok(Unit)]

\* an insertion that appends whatever the key
append_idx(points, count, x, i) == count

\* the search loop of add_point: the first i in 0..count whose point lies
\* right of x, or count
RECURSIVE find_idx(_, _, _, _)
find_idx(points, count, x, i) ==
    IF i >= count THEN count
    ELSE IF points[i].some /\ Lt(x, points[i].v.x) THEN i
    ELSE find_idx(points, count, x, i + 1)

\* the shift loop of add_point and add_node, for i in (idx..count).rev(),
\* from i down: slot i + 1 takes the entry of slot i
RECURSIVE shift(_, _, _)
shift(slots, idx, i) ==
    IF i < idx THEN slots
    ELSE shift([slots EXCEPT ![i + 1] = slots[i]], idx, i - 1)

\* a store without the shift
store_at(slots, count, entry, idx) == [slots EXCEPT ![idx] = Some(entry)]

\* the shift and the store of add_point and add_node
insert_at(slots, count, entry, idx) ==
    [shift(slots, idx, count - 1) EXCEPT ![idx] = Some(entry)]

\* an insertion that does not test for a full container
add_point_unchecked(c, point) ==
    Called([c EXCEPT !.points = insert_at(c.points, c.count, point,
                                          find_idx(c.points, c.count, point.x, 0)),
                     !.count = @ + 1],
           "add_point", Ok(Unit))

linear_add_point(c, point) ==
    IF c.count >= MAX_INTERP_POINTS THEN Called(c, "add_point", Err("Overflow"))
    ELSE Called([c EXCEPT !.points = insert_at(c.points, c.count, point,
                                               find_idx(c.points, c.count, point.x, 0)),
                          !.count = @ + 1],
                "add_point", Ok(Unit))

\* an insertion that does not look at y
add_point_any_y(c, point) ==
    IF c.count >= MAX_INTERP_POINTS THEN Called(c, "add_point", Err("Overflow"))
    ELSE Called([c EXCEPT !.points = insert_at(c.points, c.count, point,
                                               find_idx(c.points, c.count, point.x, 0)),
                          !.count = @ + 1],
                "add_point", Ok(Unit))

loglinear_add_point(c, point) ==
    IF ~is_positive(point.y) THEN Called(c, "add_point", Err("LogOfNegative"))
    ELSE IF c.count >= MAX_INTERP_POINTS THEN Called(c, "add_point", Err("Overflow"))
    ELSE Called([c EXCEPT !.points = insert_at(c.points, c.count, point,
                                               find_idx(c.points, c.count, point.x, 0)),
                          !.count = @ + 1],
                "add_point", Ok(Unit))

\* an insertion that leaves the computed flag as it is
add_point_still_computed(c, point) == linear_add_point(c, point)

cubic_add_point(c, point) ==
    IF c.count >= MAX_INTERP_POINTS THEN Called(c, "add_point", Err("Overflow"))
    ELSE Called([c EXCEPT !.points = insert_at(c.points, c.count, point,
                                               find_idx(c.points, c.count, point.x, 0)),
                          !.count = @ + 1,
                          !.computed = FALSE],
                "add_point", Ok(Unit))

\* the search loop of add_node
RECURSIVE find_insert_idx(_, _, _, _)
find_insert_idx(nodes, count, time, i) ==
    IF i >= count THEN count
    ELSE IF nodes[i].some /\ Lt(time, nodes[i].v.time) THEN i
    ELSE find_insert_idx(nodes, count, time, i + 1)

\* an insertion that stores the node before it tests for a full container
add_node_stored_first(c, node) ==
    IF c.count >= MAX_CURVE_NODES
    THEN Called([c EXCEPT !.nodes[0] = Some(node)], "add_node", Err("Overflow"))
    ELSE Called([c EXCEPT !.nodes = insert_at(c.nodes, c.count, node,
                                              find_insert_idx(c.nodes, c.count, node.time, 0)),
                          !.count = @ + 1],
                "add_node", Ok(Unit))

add_node(c, node) ==
    IF c.count >= MAX_CURVE_NODES THEN Called(c, "add_node", Err("Overflow"))
    ELSE Called([c EXCEPT !.nodes = insert_at(c.nodes, c.count, node,
                                              find_insert_idx(c.nodes, c.count, node.time, 0)),
                          !.count = @ + 1],
                "add_node", Ok(Unit))

\* the working arrays of compute: sub-diagonal, main diagonal,
\* super-diagonal and right-hand side
ZeroSystem ==
    [a |-> [i \in 0..(MAX_INTERP_POINTS - 1) |-> ZERO],
     b |-> [i \in 0..(MAX_INTERP_POINTS - 1) |-> ZERO],
     c |-> [i \in 0..(MAX_INTERP_POINTS - 1) |-> ZERO],
     d |-> [i \in 0..(MAX_INTERP_POINTS - 1) |-> ZERO]]

\* the equation of interior point i, once its right-hand side d is known
spline_rhs(sys, i, h0, h1, b, d) ==
    IF ~d.ok THEN d
    ELSE Ok([a |-> [sys.a EXCEPT ![i] = h0], b |-> [sys.b EXCEPT ![i] = b],
             c |-> [sys.c EXCEPT ![i] = h1], d |-> [sys.d EXCEPT ![i] = d.v]])

spline_slopes(sys, i, h0, h1, b, dy0, dy1) ==
    IF ~dy0.ok THEN dy0
    ELSE IF ~dy1.ok THEN dy1
    ELSE spline_rhs(sys, i, h0, h1, b,
                    RMul(Ok(DecimalFrom(6)), try_sub(dy1.v, dy0.v)))

spline_diagonal(sys, i, p0, p1, p2, h0, h1, b) ==
    IF ~b.ok THEN b
    ELSE spline_slopes(sys, i, h0, h1, b.v,
                       RDiv(try_sub(p1.y, p0.y), Ok(h0)),
                       RDiv(try_sub(p2.y, p1.y), Ok(h1)))

spline_steps(sys, i, p0, p1, p2, h0, h1) ==
    IF ~h0.ok THEN h0
    ELSE IF ~h1.ok THEN h1
    ELSE spline_diagonal(sys, i, p0, p1, p2, h0.v, h1.v,
                         RMul(Ok(DecimalFrom(2)), try_add(h0.v, h1.v)))

\* the body of the set-up loop of compute
spline_equation(sys, i, p0, p1, p2) ==
    spline_steps(sys, i, p0, p1, p2, try_sub(p1.x, p0.x), try_sub(p2.x, p1.x))

\* the set-up loop of compute, for i in 1..n - 1, from i on
RECURSIVE spline_setup(_, _, _, _)
spline_setup(points, n, i, sys) ==
    IF ~sys.ok \/ i >= n - 1 THEN sys
    ELSE spline_setup(points, n, i + 1,
                      spline_equation(sys.v, i, points[i - 1].v, points[i].v,
                                      points[i + 1].v))

spline_eliminate_d(sys, i, b, d) ==
    IF ~d.ok THEN d ELSE Ok([sys EXCEPT !.b[i] = b, !.d[i] = d.v])

spline_eliminate_b(sys, i, m, b) ==
    IF ~b.ok THEN b
    ELSE spline_eliminate_d(sys, i, b.v,
                            RSub(Ok(sys.d[i]), try_mul(m, sys.d[i - 1])))

\* the body of the forward elimination, m = a[i] / b[i - 1]
spline_eliminate(sys, i, m) ==
    IF ~m.ok THEN m
    ELSE spline_eliminate_b(sys, i, m.v,
                            RSub(Ok(sys.b[i]), try_mul(m.v, sys.c[i - 1])))

\* the forward elimination of compute, for i in 2..n - 1, from i on
RECURSIVE spline_forward(_, _, _)
spline_forward(n, i, sys) ==
    IF ~sys.ok \/ i >= n - 1 THEN sys
    ELSE spline_forward(n, i + 1,
                        spline_eliminate(sys.v, i, try_div(sys.v.a[i], sys.v.b[i - 1])))

\* compute has returned the error e
spline_failed(c, e) == Called(c, "compute", e)

\* compute has reached its end
spline_done(c) ==
    Called([c EXCEPT !.computed = TRUE, !.succeeded = TRUE], "compute", Ok(Unit))

\* the back substitution of compute, for i in (1..n - 2).rev(), from i down
RECURSIVE spline_back(_, _, _)
spline_back_put(sys, i, c, m) ==
    IF ~m.ok THEN spline_failed(c, m)
    ELSE spline_back(sys, i - 1, [c EXCEPT !.second_derivs[i] = m.v])

spline_back(sys, i, c) ==
    IF i < 1 THEN spline_done(c)
    ELSE spline_back_put(sys, i, c,
             RDiv(RSub(Ok(sys.d[i]), try_mul(sys.c[i], c.second_derivs[i + 1])),
                  Ok(sys.b[i])))

\* second_derivs[n - 2] = d[n - 2] / b[n - 2], then the loop
spline_last(c, n, sys, m) ==
    IF ~m.ok THEN spline_failed(c, m)
    ELSE spline_back(sys, n - 3, [c EXCEPT !.second_derivs[n - 2] = m.v])

\* compute from the back substitution on, the system sys eliminated
spline_solve(c, n, sys) ==
    IF ~sys.ok THEN spline_failed(c, sys)
    ELSE IF n > 2
    THEN spline_last(c, n, sys.v, try_div(sys.v.d[n - 2], sys.v.b[n - 2]))
    ELSE spline_done(c)

compute(c) ==
    IF c.count < 2 THEN spline_done(c)
    ELSE spline_solve([c EXCEPT !.second_derivs[0] = ZERO,
                                !.second_derivs[c.count - 1] = ZERO],
                      c.count,
                      spline_forward(c.count, 2,
                          spline_setup(c.points, c.count, 1, Ok(ZeroSystem))))

\* for i in 0..count - 1, from i on
RECURSIVE find_segment(_, _, _, _)
find_segment(points, count, x, i) ==
    IF i >= count - 1 THEN None
    ELSE IF ~points[i].some \/ ~points[i + 1].some THEN None
    ELSE IF Ge(x, points[i].v.x) /\ Le(x, points[i + 1].v.x)
    THEN Some([i |-> i, p0 |-> points[i].v, p1 |-> points[i + 1].v])
    ELSE find_segment(points, count, x, i + 1)

\* term1 + term2 + term3 + term4 (each failure is an Overflow)
spline_terms(p0, p1, m0, m1, a, b, h2_6) ==
    RAdd(RAdd(RAdd(try_mul(a, p0.y), try_mul(b, p1.y)),
              RMul(RMul(RSub(RMul(try_mul(a, a), Ok(a)), Ok(a)), Ok(m0)), h2_6)),
         RMul(RMul(RSub(RMul(try_mul(b, b), Ok(b)), Ok(b)), Ok(m1)), h2_6))

spline_weights(p0, p1, m0, m1, h, a, b) ==
    IF ~a.ok THEN a
    ELSE IF ~b.ok THEN b
    ELSE spline_terms(p0, p1, m0, m1, a.v, b.v,
                      RDiv(try_mul(h, h), Ok(DecimalFrom(6))))

spline_width(c, x, seg, h) ==
    IF ~h.ok THEN h
    ELSE spline_weights(seg.p0, seg.p1, c.second_derivs[seg.i],
                        c.second_derivs[seg.i + 1], h.v,
                        RDiv(try_sub(seg.p1.x, x), h), RDiv(try_sub(x, seg.p0.x), h))

spline_segment(c, x, seg) ==
    IF ~seg.some THEN Err("DivisionByZero")
    ELSE spline_width(c, x, seg.v, try_sub(seg.v.p1.x, seg.v.p0.x))

\* an interpolate that does not ask whether the spline is computed
interpolate_uncomputed(c, x) ==
    IF c.count = 0 THEN Err("DivisionByZero")
    ELSE Ok(c.points[0].v.y)

\* CubicSpline::interpolate
interpolate(c, x) ==
    IF ~c.computed THEN Err("DivisionByZero")
    ELSE IF c.count = 0 THEN Err("DivisionByZero")
    ELSE IF c.count = 1 THEN Ok(c.points[0].v.y)
    ELSE IF Le(x, c.points[0].v.x) THEN Ok(c.points[0].v.y)
    ELSE IF Ge(x, c.points[c.count - 1].v.x) THEN Ok(c.points[c.count - 1].v.y)
    ELSE spline_segment(c, x, find_segment(c.points, c.count, x, 0))

(***************************************************************************)
(* The container calls the model makes                                     *)
(***************************************************************************)
\* the largest key (x or time) inserted
MaxX == 4

\* how often a key below MaxX is inserted at most; MaxX fills the container
MaxDup == 1

\* the point (x, x^2) and the node (t, t / 100)
Point(x) == DataPoint(DecimalFrom(x), DecimalFrom(x * x))

Node(t) == CurveNode(DecimalFrom(t), DecimalNew(t, 2))

\* points a LogLinear must reject
NonPositive == {DataPoint(DecimalFrom(x), y) : x \in 1..MaxX, y \in {ZERO, NEGATIVE_ONE}}

\* the arguments of interpolate: 0, 0.5, 1, ... MaxX + 1
Queries == {DecimalNew(5 * n, 1) : n \in 0..(2 * MaxX + 2)}

\* the stored entries with the key of entry
Copies(slots, count, entry) ==
    Cardinality({i \in 0..(count - 1) : slots[i].some /\ slots[i].v = entry})

\* the keys the model inserts into a container that holds slots
Keys(slots, count, Entry(_)) ==
    {x \in 1..MaxX : x = MaxX \/ Copies(slots, count, Entry(x)) < MaxDup}

New ==
    /\ curve.kind = "none"
    /\ curve' \in {LinearNew, LogLinearNew, CubicSplineNew, PiecewiseTermStructureNew}
    /\ UNCHANGED <<solver, iv, calc>>

LinearAddPoint ==
    /\ curve.kind = "Linear"
    /\ \E x \in Keys(curve.points, curve.count, Point) :
         curve' = linear_add_point(curve, Point(x))
    /\ UNCHANGED <<solver, iv, calc>>

LogLinearAddPoint ==
    /\ curve.kind = "LogLinear"
    /\ \E point \in {Point(x) : x \in Keys(curve.points, curve.count, Point)}
                      \cup NonPositive :
         curve' = loglinear_add_point(curve, point)
    /\ UNCHANGED <<solver, iv, calc>>

CubicSplineAddPoint ==
    /\ curve.kind = "CubicSpline"
    /\ \E x \in Keys(curve.points, curve.count, Point) :
         curve' = cubic_add_point(curve, Point(x))
    /\ UNCHANGED <<solver, iv, calc>>

CubicSplineCompute ==
    /\ curve.kind = "CubicSpline"
    /\ curve' = compute(curve)
    /\ UNCHANGED <<solver, iv, calc>>

CubicSplineInterpolate ==
    /\ curve.kind = "CubicSpline"
    /\ \E x \in Queries : curve' = Called(curve, "interpolate", interpolate(curve, x))
    /\ UNCHANGED <<solver, iv, calc>>

AddNode ==
    /\ curve.kind = "PiecewiseTermStructure"
    /\ \E t \in Keys(curve.nodes, curve.count, Node) :
         curve' = add_node(curve, Node(t))
    /\ UNCHANGED <<solver, iv, calc>>

InitCurve ==
    /\ solver = SolverIdle
    /\ iv = <<>>
    /\ curve = NoCurve
    /\ calc = <<>>

NextCurve ==
    \/ New
    \/ LinearAddPoint
    \/ LogLinearAddPoint
    \/ CubicSplineAddPoint
    \/ CubicSplineCompute
    \/ CubicSplineInterpolate
    \/ AddNode

SpecCurve == InitCurve /\ [][NextCurve]_vars

(***************************************************************************)
(* Properties of the containers                                            *)
(***************************************************************************)
\* the slots of a container and the key of the entry in slot i
SlotsOf(c) == IF c.kind = "PiecewiseTermStructure" THEN c.nodes ELSE c.points

KeyOf(c, i) ==
    IF c.kind = "PiecewiseTermStructure" THEN c.nodes[i].v.time ELSE c.points[i].v.x

\* C3: after any sequence of add_node / add_point calls the entries at
\* indices 0..count-1 are present and in non-decreasing order of time / x,
\* and every slot at an index >= count is empty.
C3_InsertionKeepsSorted ==
    curve.kind # "none" =>
        /\ \A i \in 0..(curve.count - 1) : SlotsOf(curve)[i].some
        /\ \A i \in 0..(curve.count - 2) : Le(KeyOf(curve, i), KeyOf(curve, i + 1))
        /\ \A i \in curve.count..(MAX_INTERP_POINTS - 1) : ~SlotsOf(curve)[i].some

\* a full spline that holds every key, the last insertion one below the
\* largest key stored
C3_Witness ==
    /\ curve.kind = "CubicSpline"
    /\ curve.op = "add_point" /\ curve.result.ok
    /\ curve.count = MAX_INTERP_POINTS
    /\ \A x \in 1..MaxX : \E i \in 0..(curve.count - 1) : curve.points[i].v = Point(x)

\* a call that inserts an entry the container does not reject for its value
InsertsValid ==
    \/ LinearAddPoint
    \/ CubicSplineAddPoint
    \/ AddNode
    \/ /\ curve.kind = "LogLinear"
       /\ \E x \in 1..MaxX : curve' = loglinear_add_point(curve, Point(x))

\* C4: no container ever holds more than 32 entries, and the insertion of
\* a valid entry into a container that holds 32 fails with Overflow and
\* leaves the count at 32.
C4_AtMost32Entries ==
    [][/\ curve'.count <= MAX_INTERP_POINTS
       /\ curve'.count <= MAX_CURVE_NODES
       /\ (curve.count >= MAX_INTERP_POINTS /\ InsertsValid) =>
              /\ curve'.result = Err("Overflow")
              /\ curve'.count = curve.count]_vars

\* a full LogLinear has refused a valid point
C4_Witness ==
    /\ curve.kind = "LogLinear"
    /\ curve.count = MAX_INTERP_POINTS
    /\ curve.op = "add_point"
    /\ curve.result = Err("Overflow")

\* C5: CubicSpline::interpolate returns an error for every x as long as
\* compute has not returned Ok since the spline was created, however many
\* points it holds.
C5_InterpolateNeedsCompute ==
    (curve.kind = "CubicSpline" /\ curve.op = "interpolate" /\ ~curve.succeeded)
        => ~curve.result.ok

\* interpolate has failed on a spline of several points whose compute failed
C5_Witness ==
    /\ curve.kind = "CubicSpline"
    /\ curve.op = "interpolate"
    /\ ~curve.succeeded
    /\ curve.count >= 2
    /\ curve.second_derivs[0] = ZERO
    /\ ~curve.result.ok

\* every stored point of the LogLinear c has y > 0
StoredPositive(c) ==
    \A i \in 0..(c.count - 1) : c.points[i].some /\ is_positive(c.points[i].v.y)

\* C6: LogLinear::add_point with y <= 0 returns an error, and after any
\* sequence of add_point calls every stored point has y > 0.
C6_LogLinearPositive ==
    [][curve'.kind = "LogLinear" =>
          /\ StoredPositive(curve')
          /\ (\E point \in NonPositive : curve' = loglinear_add_point(curve, point))
                => ~curve'.result.ok]_vars

\* a LogLinear that holds points has refused one with y <= 0
C6_Witness ==
    /\ curve.kind = "LogLinear"
    /\ curve.count >= 2
    /\ curve.op = "add_point"
    /\ curve.result = Err("LogOfNegative")

(***************************************************************************)
(* Calls of precision-core: exp and try_exp, powi and try_powi, the oracle *)
(* conversions and from_str                                                *)
(***************************************************************************)
\* no call in progress, and a call that returned ret (loc: what it kept)
CalcIdle == [op |-> "idle", pc |-> "idle", args |-> <<>>, loc |-> <<>>, ret |-> None]

CalcDone(op, args, loc, ret) ==
    [op |-> op, pc |-> "done", args |-> args, loc |-> loc, ret |-> ret]

\* powi: square and multiply from the low bit of the exponent up; base is squared
\* after every bit, the last one included
RECURSIVE powi_loop(_, _, _)
powi_square(result, base, e) ==
    IF ~base.some THEN None ELSE powi_loop(result, base.v, e \div 2)

powi_bit(result, base, e) ==
    IF ~result.some THEN None
    ELSE powi_square(result.v, checked_mul(base, base), e)

powi_loop(result, base, e) ==
    IF e = 0 THEN Some(result)
    ELSE powi_bit(IF e % 2 = 1 THEN checked_mul(result, base) ELSE Some(result),
                  base, e)

powi_reciprocal(base, e) ==
    IF ~base.some THEN None ELSE powi_loop(ONE, base.v, e)

powi(self, n) ==
    IF n = 0 THEN Some(ONE)
    ELSE IF n < 0 THEN powi_reciprocal(checked_div(ONE, self), -n)
    ELSE powi_loop(ONE, self, n)

try_powi(self, n) ==
    IF n < 0 /\ is_zero(self) THEN Err("DivisionByZero")
    ELSE ok_or(powi(self, n), "Overflow")

\* OracleDecimals: Six, Eight, Eighteen and Custom(n)
Six == [variant |-> "Six", n |-> 6]
Eight == [variant |-> "Eight", n |-> 8]
Eighteen == [variant |-> "Eighteen", n |-> 18]
Custom(n) == [variant |-> "Custom", n |-> n]

value(decimals) == decimals.n

unwrap_or(o, default) == IF o.some THEN o.v ELSE default

scale_factor(decimals) == unwrap_or(powi(DecimalFrom(10), value(decimals)), MAX)

\* raw_value is an i64 given as sign and magnitude
normalize_oracle_price(raw_value, decimals) ==
    ok_or(checked_div(DecimalFromSigned(raw_value), scale_factor(decimals)),
          "DivisionByZero")

denormalize_mantissa(mantissa) ==
    IF i64_try_from(mantissa).ok THEN Ok(mantissa) ELSE Err("Overflow")

denormalize_scaled(scaled) ==
    IF ~scaled.some THEN Err("Overflow")
    ELSE denormalize_mantissa(to_parts(round_toward_zero(scaled.v, 0)).mantissa)

denormalize_oracle_price(v, decimals) ==
    denormalize_scaled(checked_mul(v, scale_factor(decimals)))

\* a string is a sequence of characters
Digit == {"0", "1", "2", "3", "4", "5", "6", "7", "8", "9"}

IsDigit(c) == c \in Digit

DigitValue(c) == CHOOSE d \in 0..9 : ToString(d) = c

\* s without its sign, the digits of s and the digit i of ds, 0 left of ds
Unsigned(s) == IF s # <<>> /\ s[1] \in {"+", "-"} THEN Tail(s) ELSE s

DigitsOf(s) == SelectSeq(s, IsDigit)

DigitAt(ds, i) == IF i >= 1 THEN DigitValue(ds[i]) ELSE 0

Dots(s) == Cardinality({i \in 1..Len(s) : s[i] = "."})

\* the digits right of the first dot of s
FractionDigits(s) ==
    IF Dots(s) = 0 THEN 0
    ELSE Len(s) - (CHOOSE i \in 1..Len(s) : s[i] = "." /\ \A j \in 1..(i - 1) : s[j] # ".")

\* the magnitude the decimal digits ds spell
NFromDigits(ds) ==
    NTrim([j \in 1..((Len(ds) + 3) \div 4) |->
              DigitAt(ds, Len(ds) - 4 * (j - 1))
              + 10 * DigitAt(ds, Len(ds) - 4 * (j - 1) - 1)
              + 100 * DigitAt(ds, Len(ds) - 4 * (j - 1) - 2)
              + 1000 * DigitAt(ds, Len(ds) - 4 * (j - 1) - 3)])

\* the library's from_str on signs, digits, dots and other characters
\* (no underscores, no exponents): the value of a numeral that fits, or
\* the library's error
RustDecimal_from_str(s) ==
    IF s = <<>> THEN Err("Invalid decimal: empty")
    ELSE IF \E i \in 1..Len(Unsigned(s)) : Unsigned(s)[i] \notin Digit \cup {"."}
    THEN Err("Invalid decimal: unknown character")
    ELSE IF Dots(s) > 1 THEN Err("Invalid decimal: two decimal points")
    ELSE IF DigitsOf(s) = <<>> THEN Err("Invalid decimal: no digits found")
    ELSE ok_or(Fit(s[1] = "-", NFromDigits(DigitsOf(s)), FractionDigits(Unsigned(s))),
               "Invalid decimal: overflow from too many digits")

\* .map(Self).map_err(|_| ParseError::InvalidCharacter)
from_str_map(r) == IF r.ok THEN r ELSE Err("InvalidCharacter")

from_str(s) ==
    IF s = <<>> THEN Err("Empty") ELSE from_str_map(RustDecimal_from_str(s))

(***************************************************************************)
(* The calls the model makes                                               *)
(***************************************************************************)
MaxExpArg == 101
MaxPow == 4
MaxRaw == 3

\* -MaxExpArg .. MaxExpArg and a few fractions
ExpArgs ==
    {DecimalFrom(n) : n \in (-MaxExpArg)..MaxExpArg}
    \cup {DecimalNew(1, 1), DecimalNew(-5, 1), DecimalNew(115, 1),
          DecimalNew(123456789, 9)}

\* 10^8, 10^15 and Decimal::MAX are below, at and above the square root of
\* what 96 bits hold
PowBases ==
    {ZERO, ONE, DecimalFrom(2), DecimalFrom(-3), DecimalFrom(10),
     DecimalNew(5, 1), DecimalNew(-15, 1), DecimalNew(1, 10),
     DecimalFrom(10^8), Dec(FALSE, <<0, 0, 0, 1000>>, 0), MAX}

PowExponents == (-2)..MaxPow

\* i64 values: the small ones, 2500.12345678 at 8 decimals, 10^18 and the
\* two ends of the range
RawValues ==
    {Signed(n < 0, NFromInt(IF n < 0 THEN -n ELSE n)) : n \in (-MaxRaw)..MaxRaw}
    \cup {Signed(FALSE, <<5678, 1234, 2500>>), Signed(FALSE, <<0, 0, 0, 0, 100>>),
          Signed(FALSE, I64MaxMag), Signed(TRUE, I64MinMag)}

OracleFormats == {Six, Eight, Eighteen, Custom(0), Custom(2), Custom(30)}

\* numerals: a sign or none, an integer part, a fraction or none; the
\* same with a second dot, a letter, an exponent, a blank or a second
\* sign; integers of 29 and 30 digits, 29 sevens within 96 bits and 29
\* eights beyond; and the strings without a digit
Signs == {<<>>, <<"+">>, <<"-">>}

IntegerParts == {<<"0">>, <<"7">>, <<"4", "2">>}

LongIntegers == {[i \in 1..29 |-> "7"], [i \in 1..29 |-> "8"], [i \in 1..30 |-> "1"]}

Fractions == {<<>>, <<".", "5">>, <<".", "2", "5">>}

Malformed ==
    {<<".", "5", ".", "5">>, <<".", ".", "5">>, <<"a">>, <<".", "5", "e", "3">>,
     <<" ">>, <<"-", "1">>}

Strings ==
    {sign \o int \o tail : sign \in Signs, int \in IntegerParts,
                           tail \in Fractions \cup Malformed}
    \cup {sign \o int \o tail : sign \in Signs, int \in LongIntegers,
                                tail \in {<<>>} \cup Malformed}
    \cup {<<>>, <<"-">>, <<"+">>, <<".">>, <<"a">>, <<"-", ".">>}

ExpCall ==
    /\ calc.pc = "idle"
    /\ \E x \in ExpArgs : calc' = CalcDone("exp", <<x>>, <<>>, exp(x))
    /\ UNCHANGED <<solver, iv, curve>>

TryExpCall ==
    /\ calc.pc = "idle"
    /\ \E x \in ExpArgs : calc' = CalcDone("try_exp", <<x>>, <<>>, try_exp(x))
    /\ UNCHANGED <<solver, iv, curve>>

PowiCall ==
    /\ calc.pc = "idle"
    /\ \E base \in PowBases, n \in PowExponents :
         calc' = CalcDone("powi", <<base, n>>, <<>>, powi(base, n))
    /\ UNCHANGED <<solver, iv, curve>>

TryPowiCall ==
    /\ calc.pc = "idle"
    /\ \E base \in PowBases, n \in PowExponents :
         calc' = CalcDone("try_powi", <<base, n>>, <<>>, try_powi(base, n))
    /\ UNCHANGED <<solver, iv, curve>>

NormalizeCall ==
    /\ calc.pc = "idle"
    /\ \E raw \in RawValues, d \in OracleFormats :
         calc' = CalcDone("normalize_oracle_price", <<raw, d>>, <<>>,
                          normalize_oracle_price(raw, d))
    /\ UNCHANGED <<solver, iv, curve>>

\* the price a normalize_oracle_price returned goes back through
\* denormalize_oracle_price with the same format; loc keeps the price
DenormalizeCall ==
    /\ calc.pc = "done"
    /\ calc.op = "normalize_oracle_price"
    /\ calc.ret.ok
    /\ calc' = CalcDone("denormalize_oracle_price", calc.args, calc.ret.v,
                        denormalize_oracle_price(calc.ret.v, calc.args[2]))
    /\ UNCHANGED <<solver, iv, curve>>

FromStrCall ==
    /\ calc.pc = "idle"
    /\ \E s \in Strings : calc' = CalcDone("from_str", <<s>>, <<>>, from_str(s))
    /\ UNCHANGED <<solver, iv, curve>>

CalcReturn ==
    /\ calc.pc = "done"
    /\ calc' = CalcIdle
    /\ UNCHANGED <<solver, iv, curve>>

InitCalc ==
    /\ solver = SolverIdle
    /\ iv = <<>>
    /\ curve = NoCurve
    /\ calc = CalcIdle

NextCalc ==
    \/ ExpCall
    \/ TryExpCall
    \/ PowiCall
    \/ TryPowiCall
    \/ NormalizeCall
    \/ DenormalizeCall
    \/ FromStrCall
    \/ CalcReturn

SpecCalc == InitCalc /\ [][NextCalc]_vars

(***************************************************************************)
(* Properties of exp, powi, the oracle conversions and from_str            *)
(***************************************************************************)
ExpReturned == calc.pc = "done" /\ calc.op \in {"exp", "try_exp"}

\* C7: exp and try_exp never abort; they return None / Overflow above 100,
\* ZERO below -100, and in between a value or None / Overflow
C7_ExpNeverAborts ==
    ExpReturned =>
        /\ ~IsPanic(calc.ret)
        /\ Gt(calc.args[1], DecimalFrom(100))
             => calc.ret = IF calc.op = "exp" THEN None ELSE Err("Overflow")
        /\ Lt(calc.args[1], DecimalFrom(-100))
             => calc.ret = IF calc.op = "exp" THEN Some(ZERO) ELSE Ok(ZERO)

\* exp(100) panics
C7_Witness ==
    /\ ExpReturned
    /\ calc.op = "exp"
    /\ calc.args[1] = DecimalFrom(100)
    /\ calc.ret = Panic("Exp overflowed")

\* m^n
RECURSIVE NPow(_, _)
NPow(m, n) == IF n = 0 THEN <<1>> ELSE NMul(m, NPow(m, n - 1))

\* base^n for n >= 0, exactly: a mantissa of any width at any scale
ExactPower(base, n) ==
    Dec(base.neg /\ n % 2 = 1, NPow(base.m, n), base.scale * n)

\* d is the value of some Decimal: without its trailing zeros the mantissa
\* has at most 96 bits at a scale of at most MAX_SCALE
Representable(d) ==
    \/ is_zero(d)
    \/ /\ d.scale - NTrailingZeros(d.m, d.scale) <= MAX_SCALE
       /\ NCmp(NShr(d.m, NTrailingZeros(d.m, d.scale)), MaxMantissa) <= 0

PowiReturned == calc.pc = "done" /\ calc.op = "powi" /\ calc.args[2] >= 0

\* C8: for n >= 0, powi(n) is Some of the exact base^n whenever that is
\* representable, and None only when it is not
C8_PowiExactWhenRepresentable ==
    (PowiReturned /\ Representable(ExactPower(calc.args[1], calc.args[2]))) =>
        /\ calc.ret.some
        /\ Eq(calc.ret.v, ExactPower(calc.args[1], calc.args[2]))

\* Decimal::MAX.powi(1) is None
C8_Witness ==
    /\ PowiReturned
    /\ calc.args = <<MAX, 1>>
    /\ calc.ret = None

Standard == {Six, Eight, Eighteen}

\* C9: for Six, Eight and Eighteen and every raw i64, normalize succeeds
\* and denormalize of its price returns Ok(raw)
C9_OracleRoundTrip ==
    /\ (calc.op = "normalize_oracle_price" /\ calc.args[2] \in Standard)
         => calc.ret.ok
    /\ (calc.op = "denormalize_oracle_price" /\ calc.args[2] \in Standard)
         => calc.ret = Ok(calc.args[1])

\* a raw 1 at Eighteen comes back as 0
C9_Witness ==
    /\ calc.op = "denormalize_oracle_price"
    /\ calc.args = <<Signed(FALSE, <<1>>), Eighteen>>
    /\ calc.ret = Ok(Signed(FALSE, <<>>))

\* s has a character that is no digit, sign or dot
HasOtherCharacter(s) == \E i \in 1..Len(s) : s[i] \notin Digit \cup {"+", "-", "."}

\* s is sign, digits and at most one dot, with a digit
WellFormed(s) ==
    /\ \A i \in 1..Len(Unsigned(s)) : Unsigned(s)[i] \in Digit \cup {"."}
    /\ Dots(s) <= 1
    /\ DigitsOf(s) # <<>>

TooLarge(s) ==
    ~Fit(FALSE, NFromDigits(DigitsOf(s)), FractionDigits(Unsigned(s))).some

FromStrFailed == calc.pc = "done" /\ calc.op = "from_str" /\ ~calc.ret.ok

\* C10: from_str reports Empty for the empty string, MultipleDecimalPoints
\* for more than one dot, OutOfRange for a numeral too large, and
\* InvalidCharacter only for a character that is no digit, sign or dot
C10_SpecificParseErrors ==
    FromStrFailed =>
        /\ calc.args[1] = <<>> => calc.ret.err = "Empty"
        /\ (Dots(calc.args[1]) > 1 /\ ~HasOtherCharacter(calc.args[1]))
             => calc.ret.err = "MultipleDecimalPoints"
        /\ (WellFormed(calc.args[1]) /\ TooLarge(calc.args[1]))
             => calc.ret.err = "OutOfRange"
        /\ calc.ret.err = "InvalidCharacter" => HasOtherCharacter(calc.args[1])

\* "7.5.5" is an InvalidCharacter
C10_Witness ==
    /\ FromStrFailed
    /\ calc.args[1] = <<"7", ".", "5", ".", "5">>
    /\ calc.ret = Err("InvalidCharacter")

(***************************************************************************)
(* sqrt and ln.  The wrappers are decimal.rs's; the iterations are the     *)
(* library's: Newton's for sqrt, from self / 2 until a pass changes        *)
(* nothing, and for ln a scaling by e into (1/e, 1) and the series of      *)
(* ln(1 + x)                                                               *)
(***************************************************************************)
SqrtBreaker == 1000
LnTerms == 100

\* the library's E, 2.7182818284590452353602874714, and E_INVERSE,
\* 0.3678794411714423215955237702
E == Dec(FALSE, <<4714, 287, 3536, 452, 8459, 8182, 7182, 2>>, 28)
E_INVERSE == Dec(FALSE, <<7702, 5523, 2159, 4423, 1171, 7944, 3678>>, 28)

Leave(l, v) == [l EXCEPT !.done = TRUE, !.value = v]

sqrt_locals(x, result) ==
    [x |-> x, result |-> result, last |-> PAdd(result, ONE), n |-> 0,
     done |-> FALSE, value |-> None]

\* while last != result { last = result; result = (result + self / result) / 2 }
sqrt_iter(l) ==
    IF IsPanic(l.result) THEN Leave(l, l.result)
    ELSE IF IsPanic(l.last) THEN Leave(l, l.last)
    ELSE IF Eq(l.last, l.result) THEN Leave(l, Some(l.result))
    ELSE IF l.n + 1 >= SqrtBreaker THEN Leave(l, Panic("geo mean circuit breaker"))
    ELSE [l EXCEPT !.last = l.result, !.n = l.n + 1,
                   !.result = PDiv(PAdd(l.result, PDiv(l.x, l.result)), TWO)]

RECURSIVE sqrt_loop(_)
sqrt_loop(l) == IF l.done THEN l.value ELSE sqrt_loop(sqrt_iter(l))

\* the first guess is self / 2, or self where that is zero
sqrt_guess(x, half) == IF ~IsPanic(half) /\ is_zero(half) THEN x ELSE half

RustDecimal_sqrt(x) ==
    IF is_negative(x) THEN None
    ELSE IF is_zero(x) THEN Some(ZERO)
    ELSE sqrt_loop(sqrt_locals(x, sqrt_guess(x, PDiv(x, TWO))))

sqrt(self) == IF is_negative(self) THEN None ELSE RustDecimal_sqrt(self)

try_sqrt(self) ==
    IF is_negative(self) THEN Err("NegativeSqrt") ELSE ok_or_overflow(sqrt(self))

\* while x >= 1 { x *= E_INVERSE; count += 1 }
RECURSIVE ln_down(_)
ln_down(l) ==
    IF IsPanic(l.x) \/ Lt(l.x, ONE) THEN l
    ELSE ln_down([x |-> PMul(l.x, E_INVERSE), count |-> l.count + 1])

\* while x <= E_INVERSE { x *= E; count -= 1 }
RECURSIVE ln_up(_)
ln_up(l) ==
    IF IsPanic(l.x) \/ Gt(l.x, E_INVERSE) THEN l
    ELSE ln_up([x |-> PMul(l.x, E), count |-> l.count - 1])

ln_locals(x) ==
    [x |-> x, result |-> ZERO, iteration |-> 0, y |-> ONE, last |-> ONE]

\* iteration += 1; last = result; y *= -x; result += y / iteration
ln_term(l, y) ==
    [l EXCEPT !.iteration = l.iteration + 1, !.last = l.result, !.y = y,
              !.result = PAdd(l.result, PDiv(y, DecimalFrom(l.iteration + 1)))]

ln_iter(l) == ln_term(l, PMul(l.y, Neg(l.x)))

RECURSIVE ln_loop(_)
ln_loop(l) ==
    IF IsPanic(l.result) \/ IsPanic(l.y) THEN l
    ELSE IF Eq(l.last, l.result) \/ l.iteration >= LnTerms THEN l
    ELSE ln_loop(ln_iter(l))

ln_series(count, l) ==
    IF IsPanic(l.y) THEN l.y
    ELSE IF IsPanic(l.result) THEN l.result
    ELSE Some(PSub(DecimalFrom(count), l.result))

\* x -= 1, and count alone where that is zero
ln_shifted(count, x) ==
    IF IsPanic(x) THEN x
    ELSE IF is_zero(x) THEN Some(DecimalFrom(count))
    ELSE ln_series(count, ln_loop(ln_locals(x)))

ln_scaled(l) == ln_shifted(l.count, PSub(l.x, ONE))

checked_ln(x) ==
    IF is_negative(x) \/ is_zero(x) THEN None
    ELSE IF Eq(x, ONE) THEN Some(ZERO)
    ELSE ln_scaled(ln_up(ln_down([x |-> x, count |-> 0])))

\* Some(Self(self.0.ln())): the library's ln panics where checked_ln has
\* no value
ln_unwrap(o) ==
    IF IsPanic(o) \/ o.some THEN o
    ELSE Panic("Calculation of ln failed for unknown reasons")

ln(self) == IF ~is_positive(self) THEN None ELSE ln_unwrap(checked_ln(self))

try_ln(self) ==
    IF is_zero(self) THEN Err("LogOfZero")
    ELSE IF is_negative(self) THEN Err("LogOfNegative")
    ELSE ok_or_overflow(ln(self))

(***************************************************************************)
(* Black-Scholes prices and implied volatility                             *)
(* (financial-calc/src/options.rs)                                         *)
(***************************************************************************)
\* Decimal::pi(): from_str of 31 decimals, which the library rounds to 28
pi ==
    from_str(<<"3", ".", "1", "4", "1", "5", "9", "2", "6", "5", "3", "5", "8",
               "9", "7", "9", "3", "2", "3", "8", "4", "6", "2", "6", "4", "3",
               "3", "8", "3", "2", "7", "9", "5">>).v

OptionParams(spot, strike, rate, time, volatility) ==
    [spot |-> spot, strike |-> strike, rate |-> rate, time |-> time,
     volatility |-> volatility]

\* results that may already have failed: r.try_exp()?, r.try_sqrt()?, r.try_ln()?
RExp(r) == IF ~r.ok THEN r ELSE try_exp(r.v)
RSqrt(r) == IF ~r.ok THEN r ELSE try_sqrt(r.v)
RLn(r) == IF ~r.ok THEN r ELSE try_ln(r.v)

\* x.try_mul(x)?.try_div(two)?.try_mul(NEGATIVE_ONE)?
neg_half_x_sq(x) == RMul(RDiv(try_mul(x, x), Ok(TWO)), Ok(NEGATIVE_ONE))

\* a1*k + a2*k^2 + a3*k^3 + a4*k^4 + a5*k^5 by Horner's rule
normal_cdf_poly(k) ==
    RMul(k, RAdd(Ok(DecimalNew(319381530, 9)),
        RMul(k, RAdd(Ok(DecimalNew(-356563782, 9)),
            RMul(k, RAdd(Ok(DecimalNew(1781477937, 9)),
                RMul(k, RAdd(Ok(DecimalNew(-1821255978, 9)),
                    RMul(k, Ok(DecimalNew(1330274429, 9)))))))))))

\* sqrt(2 pi) as normal_cdf spells it, 2.5066282746310002
SQRT_TWO_PI == Dec(FALSE, <<2, 4631, 2827, 5066, 2>>, 16)

normal_cdf_negate(negate, n_x) == IF negate THEN RSub(Ok(ONE), n_x) ELSE n_x

normal_cdf_pdf(abs_x, negate, poly) ==
    IF ~poly.ok THEN poly
    ELSE normal_cdf_negate(negate,
             RSub(Ok(ONE),
                  RMul(RDiv(RExp(neg_half_x_sq(abs_x)), Ok(SQRT_TWO_PI)), poly)))

normal_cdf_k(abs_x, negate, k) == normal_cdf_pdf(abs_x, negate, normal_cdf_poly(k))

normal_cdf(x) ==
    IF Gt(x, DecimalFrom(8)) THEN Ok(ONE)
    ELSE IF Lt(x, DecimalFrom(-8)) THEN Ok(ZERO)
    ELSE normal_cdf_k(abs(x), Lt(x, ZERO),
                      RDiv(Ok(ONE), RAdd(Ok(ONE), try_mul(DecimalNew(2316419, 7), abs(x)))))

normal_pdf_exp(x, sqrt_two_pi) ==
    IF ~sqrt_two_pi.ok THEN sqrt_two_pi
    ELSE RDiv(RExp(neg_half_x_sq(x)), sqrt_two_pi)

normal_pdf(x) == normal_pdf_exp(x, RSqrt(try_mul(pi, TWO)))

d1_d2_d2(d1, d2) == IF ~d2.ok THEN d2 ELSE Ok(<<d1, d2.v>>)

d1_d2_d1(vol_sqrt_t, d1) ==
    IF ~d1.ok THEN d1 ELSE d1_d2_d2(d1.v, try_sub(d1.v, vol_sqrt_t))

\* (ln(S/K) + (r + vol^2 / 2) T) / (vol sqrt(T))
d1_d2_ln(params, vol_sqrt_t, ln_s_k) ==
    IF ~ln_s_k.ok THEN ln_s_k
    ELSE d1_d2_d1(vol_sqrt_t,
             RDiv(RAdd(ln_s_k,
                       RMul(RAdd(Ok(params.rate),
                                 RDiv(try_mul(params.volatility, params.volatility),
                                      Ok(TWO))),
                            Ok(params.time))),
                  Ok(vol_sqrt_t)))

d1_d2_vol(params, vol_sqrt_t) ==
    IF ~vol_sqrt_t.ok THEN vol_sqrt_t
    ELSE d1_d2_ln(params, vol_sqrt_t.v, RLn(try_div(params.spot, params.strike)))

calculate_d1_d2(params) ==
    d1_d2_vol(params, RMul(Ok(params.volatility), try_sqrt(params.time)))

validate_params(params) ==
    IF Le(params.spot, ZERO) THEN Err("LogOfNegative")
    ELSE IF Le(params.strike, ZERO) THEN Err("LogOfNegative")
    ELSE IF Le(params.time, ZERO) THEN Err("NegativeSqrt")
    ELSE IF Le(params.volatility, ZERO) THEN Err("LogOfNegative")
    ELSE Ok(Unit)

\* e^(-rT)
discount(params) ==
    RExp(RMul(try_mul(params.rate, params.time), Ok(NEGATIVE_ONE)))

\* C = S N(d1) - K e^(-rT) N(d2)
call_terms(params, n_d2, term1, discounted) ==
    IF ~term1.ok THEN term1 ELSE RSub(term1, RMul(discounted, Ok(n_d2)))

call_discount(params, n_d1, n_d2, disc) ==
    IF ~disc.ok THEN disc
    ELSE call_terms(params, n_d2, try_mul(params.spot, n_d1),
                    try_mul(params.strike, disc.v))

\* P = K e^(-rT) N(-d2) - S N(-d1)
put_discount(params, n_neg_d1, n_neg_d2, disc) ==
    IF ~disc.ok THEN disc
    ELSE RSub(RMul(try_mul(params.strike, disc.v), Ok(n_neg_d2)),
              try_mul(params.spot, n_neg_d1))

\* the two normal_cdf calls, then the discount factor and the terms
price_n2(params, is_call, n1, n2) ==
    IF ~n2.ok THEN n2
    ELSE IF is_call THEN call_discount(params, n1, n2.v, discount(params))
    ELSE put_discount(params, n1, n2.v, discount(params))

price_n1(params, is_call, d2, n1) ==
    IF ~n1.ok THEN n1 ELSE price_n2(params, is_call, n1.v, normal_cdf(d2))

price_d(params, is_call, d) ==
    IF ~d.ok THEN d
    ELSE IF is_call THEN price_n1(params, is_call, d.v[2], normal_cdf(d.v[1]))
    ELSE price_n1(params, is_call, Neg(d.v[2]), normal_cdf(Neg(d.v[1])))

price_valid(params, is_call, valid) ==
    IF ~valid.ok THEN valid ELSE price_d(params, is_call, calculate_d1_d2(params))

black_scholes_call(params) == price_valid(params, TRUE, validate_params(params))

black_scholes_put(params) == price_valid(params, FALSE, validate_params(params))

\* implied_volatility: a call before its entry, inside its loop (pc "loop",
\* i passes made) and returned; exit says how it returned: "error" through
\* ?, "converged" from the tolerance test, "vega" from the break and "cap"
\* from the end of the loop
IvIdle ==
    [pc |-> "idle", market_price |-> ZERO, params |-> <<>>, is_call |-> TRUE,
     max_iter |-> 0, tol |-> ZERO, sigma |-> ZERO, i |-> 0, exit |-> "-",
     result |-> Err("-")]

iv_return(s, exit, r) == [s EXCEPT !.pc = "done", !.exit = exit, !.result = r]

\* an estimate left as the update made it
unclamped_vol(sigma) == sigma

\* sigma.max(min_vol).min(max_vol)
clamp_vol(sigma) == min(max(sigma, DecimalNew(1, 2)), DecimalFrom(5))

\* for _ in 0..max_iter, and Ok(sigma) after it
iv_loop(s) ==
    IF s.i >= s.max_iter THEN iv_return(s, "cap", Ok(s.sigma))
    ELSE [s EXCEPT !.pc = "loop"]

iv_guess(s, sigma) ==
    IF ~sigma.ok THEN iv_return(s, "error", sigma)
    ELSE iv_loop([s EXCEPT !.sigma = clamp_vol(sigma.v)])

\* sqrt(2 pi / T) * (C / S)
brenner_subrahmanyam(market_price, params) ==
    RMul(RSqrt(RDiv(try_mul(pi, TWO), Ok(params.time))),
         try_div(market_price, params.spot))

implied_volatility(market_price, params, is_call, max_iterations, tolerance) ==
    iv_guess([IvIdle EXCEPT !.market_price = market_price, !.params = params,
                            !.is_call = is_call,
                            !.max_iter = unwrap_or(max_iterations, 100),
                            !.tol = unwrap_or(tolerance, DecimalNew(1, 4))],
             brenner_subrahmanyam(market_price, params))

\* iter_params
iv_params(s) == [s.params EXCEPT !.volatility = s.sigma]

iv_update(s, sigma) ==
    IF ~sigma.ok THEN iv_return(s, "error", sigma)
    ELSE iv_loop([s EXCEPT !.sigma = clamp_vol(sigma.v), !.i = s.i + 1])

iv_vega(s, diff, vega) ==
    IF ~vega.ok THEN iv_return(s, "error", vega)
    ELSE IF Lt(abs(vega.v), DecimalNew(1, 8)) THEN iv_return(s, "vega", Ok(s.sigma))
    ELSE iv_update(s, RSub(Ok(s.sigma), try_div(diff, vega.v)))

iv_pdf(s, diff, sqrt_t, n_prime_d1) ==
    IF ~n_prime_d1.ok THEN iv_return(s, "error", n_prime_d1)
    ELSE iv_vega(s, diff, RMul(try_mul(s.params.spot, sqrt_t), n_prime_d1))

iv_sqrt(s, diff, d1, sqrt_t) ==
    IF ~sqrt_t.ok THEN iv_return(s, "error", sqrt_t)
    ELSE iv_pdf(s, diff, sqrt_t.v, normal_pdf(d1))

iv_d1(s, diff, d) ==
    IF ~d.ok THEN iv_return(s, "error", d)
    ELSE iv_sqrt(s, diff, d.v[1], try_sqrt(s.params.time))

iv_diff(s, diff) ==
    IF ~diff.ok THEN iv_return(s, "error", diff)
    ELSE IF Lt(abs(diff.v), s.tol) THEN iv_return(s, "converged", Ok(s.sigma))
    ELSE iv_d1(s, diff.v, calculate_d1_d2(iv_params(s)))

iv_price(s, price) ==
    IF ~price.ok THEN iv_return(s, "error", price)
    ELSE iv_diff(s, try_sub(price.v, s.market_price))

\* one pass of the loop
iv_pass(s) ==
    iv_price(s, IF s.is_call THEN black_scholes_call(iv_params(s))
                ELSE black_scholes_put(iv_params(s)))

(***************************************************************************)
(* The calls of implied_volatility the model makes: options at the money   *)
(* and out of it, market prices from below the lowest price to above the   *)
(* highest, up to MaxIvIter passes                                         *)
(***************************************************************************)
MaxIvIter == 2

Spot == DecimalFrom(100)

Contracts ==
    {OptionParams(Spot, DecimalFrom(strike), DecimalNew(rate, 2), ONE, DecimalNew(2, 1)) :
         strike \in {50, 100}, rate \in {5}}

\* contracts validate_params rejects: spot, strike or time zero or negative
InvalidContracts ==
    {OptionParams(DecimalFrom(c[1]), DecimalFrom(c[2]), DecimalNew(5, 2),
                  DecimalFrom(c[3]), DecimalNew(2, 1)) :
         c \in {<<0, 100, 1>>, <<-100, 100, 1>>, <<100, 0, 1>>, <<100, -50, 1>>,
                <<100, 100, 0>>, <<100, 100, -1>>}}

\* the volatility field of a pricing call
Volatilities == {DecimalNew(2, 1), ZERO, DecimalNew(-2, 1)}

PricingParams ==
    {[c EXCEPT !.volatility = v] : c \in Contracts \cup InvalidContracts,
                                   v \in Volatilities}

MarketPrices == {DecimalNew(1, 1), DecimalFrom(8), DecimalFrom(10), DecimalFrom(60)}

IvCaps == {Some(n) : n \in 0..MaxIvIter}

IvCall ==
    /\ iv.pc = "idle"
    /\ calc.pc = "idle"
    /\ \E market_price \in MarketPrices, params \in Contracts \cup InvalidContracts,
          is_call \in BOOLEAN,
          max_iterations \in IvCaps, tolerance \in {None, Some(ONE)} :
         iv' = implied_volatility(market_price, params, is_call, max_iterations,
                                  tolerance)
    /\ UNCHANGED <<solver, curve, calc>>

IvPass ==
    /\ iv.pc = "loop"
    /\ iv' = iv_pass(iv)
    /\ UNCHANGED <<solver, curve, calc>>

IvReturn ==
    /\ iv.pc = "done"
    /\ iv' = IvIdle
    /\ UNCHANGED <<solver, curve, calc>>

CallPriceCall ==
    /\ calc.pc = "idle"
    /\ iv.pc = "idle"
    /\ \E params \in PricingParams :
         calc' = CalcDone("black_scholes_call", <<params>>, <<>>,
                          black_scholes_call(params))
    /\ UNCHANGED <<solver, iv, curve>>

PutPriceCall ==
    /\ calc.pc = "idle"
    /\ iv.pc = "idle"
    /\ \E params \in PricingParams :
         calc' = CalcDone("black_scholes_put", <<params>>, <<>>,
                          black_scholes_put(params))
    /\ UNCHANGED <<solver, iv, curve>>

InitIv ==
    /\ solver = SolverIdle
    /\ iv = IvIdle
    /\ curve = NoCurve
    /\ calc = CalcIdle

NextIv ==
    \/ IvCall
    \/ IvPass
    \/ IvReturn
    \/ CallPriceCall
    \/ PutPriceCall
    \/ CalcReturn

SpecIv == InitIv /\ [][NextIv]_vars

\* |price(sigma) - market_price| at the estimate a call holds
Residual(s) ==
    RSub(IF s.is_call THEN black_scholes_call(iv_params(s))
         ELSE black_scholes_put(iv_params(s)), Ok(s.market_price))

\* a call that returned from the end of the loop or from the vega break
\* with an estimate whose price is not within the tolerance of the market's
NotConverged ==
    /\ iv.pc = "done"
    /\ iv.exit \in {"cap", "vega"}
    /\ Residual(iv).ok
    /\ ~Lt(abs(Residual(iv).v), iv.tol)

\* a result that carries a converged flag, set to false
FlaggedNotConverged(r) ==
    /\ r.ok
    /\ "converged" \in DOMAIN r.v
    /\ ~r.v.converged

\* C2: a call of implied_volatility that stops at the iteration cap or on a
\* vega below 1e-8 while the price of its estimate is still a tolerance or
\* more away from the market price returns a result flagged converged =
\* false. The code returns Ok(sigma), the same shape a converged call
\* returns, so the formula is violated.
C2_NonConvergenceFlagged == NotConverged => FlaggedNotConverged(iv.result)

\* a call that left the loop on the vega break, not converged, and returned
\* the bare estimate
C2_Witness ==
    /\ NotConverged
    /\ iv.exit = "vega"
    /\ iv.result = Ok(iv.sigma)

(***************************************************************************)
(* Properties of the bracketing solvers' entry                             *)
(***************************************************************************)
\* a call of bisection or brent that is past its bracket test, f defined at
\* both ends
Bracketed ==
    /\ solver.pc # "idle"
    /\ solver.method \in {"bisection", "brent"}
    /\ F(solver.f, solver.arg[1]).ok
    /\ F(solver.f, solver.arg[2]).ok

EndValue(i) == F(solver.f, solver.arg[i]).v

\* one end value strictly positive and the other strictly negative
OppositeSign(fa, fb) ==
    \/ Gt(fa, ZERO) /\ Lt(fb, ZERO)
    \/ Lt(fa, ZERO) /\ Gt(fb, ZERO)

\* both end values strictly positive or both strictly negative
SameSign(fa, fb) ==
    \/ Gt(fa, ZERO) /\ Gt(fb, ZERO)
    \/ Lt(fa, ZERO) /\ Lt(fb, ZERO)

\* the call returned Err(DivisionByZero) without entering its loop
RejectedBeforeIterating ==
    /\ solver.pc = "done"
    /\ solver.w = <<>>
    /\ solver.iterations = 0
    /\ solver.result = Err("DivisionByZero")

InvalidContract(params) ==
    \/ Le(params.spot, ZERO)
    \/ Le(params.strike, ZERO)
    \/ Le(params.time, ZERO)

\* a result that is an error value
IsError(r) == ~IsPanic(r) /\ ~r.ok

\* a returned call of black_scholes_call or black_scholes_put
PriceReturned ==
    calc.pc = "done" /\ calc.op \in {"black_scholes_call", "black_scholes_put"}

\* the pricing functions reject spot, strike, time or volatility that is
\* zero or negative
PricingValidates ==
    (/\ PriceReturned
     /\ InvalidContract(calc.args[1]) \/ Le(calc.args[1].volatility, ZERO))
        => IsError(calc.ret)

\* C12: black_scholes_call, black_scholes_put and implied_volatility return
\* an error whenever spot, strike or time is zero or negative (the pricing
\* functions also when volatility is), whatever the other arguments,
\* max_iterations = 0 included. implied_volatility validates only through the
\* pricing call of its first pass, so with no pass it returns Ok.
C12_InvalidParamsRejected ==
    /\ PricingValidates
    /\ (iv.pc = "done" /\ InvalidContract(iv.params)) => IsError(iv.result)

\* implied_volatility returned Ok on a strike of zero without making a pass
C12_Witness ==
    /\ iv.pc = "done"
    /\ iv.params.strike = ZERO
    /\ iv.max_iter = 0
    /\ iv.result.ok

(***************************************************************************)
(* The contract adapters of examples/stylus-lending and stylus-options     *)
(* between U256 fixed point at 18 decimals and Decimal, and                *)
(* convert_decimals (precision-core/src/oracle.rs).  A U256 and a u128 are *)
(* unsigned magnitudes.                                                    *)
(***************************************************************************)
Pow2_16 == NFromInt(65536)
Pow2_32 == NMul(Pow2_16, Pow2_16)
Pow2_64 == NMul(Pow2_32, Pow2_32)
Pow2_96 == NMul(Pow2_64, Pow2_32)
Pow2_128 == NMul(Pow2_64, Pow2_64)
Pow2_256 == NMul(Pow2_128, Pow2_128)

\* const SCALE: u64 = 1_000_000_000_000_000_000, as a Decimal
SCALE == Dec(FALSE, NShl(<<1>>, 18), 0)

\* limbs 0 and 1 of the U256: the low 128 bits
low_u128(u) == NDivMod(u, Pow2_128).r

\* RustDecimal::from(u128) is from_u128(n).unwrap(): None above 96 bits
RustDecimal_from_u128(n) ==
    IF NCmp(n, MaxMantissa) > 0
    THEN Panic("unwrap on None")
    ELSE Dec(FALSE, n, 0)

u256_to_decimal_raw(raw) ==
    IF IsPanic(raw) THEN raw ELSE unwrap_or(checked_div(raw, SCALE), MAX)

u256_to_decimal(u) == u256_to_decimal_raw(RustDecimal_from_u128(low_u128(u)))

\* U256::from(u128)
U256From(n) == [limbs |-> n]

\* mantissa.unsigned_abs() of the scaled, truncated value
decimal_to_u256(d) ==
    U256From(to_parts(round_toward_zero(unwrap_or(checked_mul(d, SCALE), MAX), 0))
                 .mantissa.m)

\* 10i64.checked_pow(n)
i64_checked_pow10(n) == IF n <= 18 THEN Some(Signed(FALSE, NShl(<<1>>, n))) ELSE None

\* i64 checked_mul
i64_checked_mul(a, b) ==
    IF i64_try_from(Signed(a.neg # b.neg, NMul(a.m, b.m))).ok
    THEN Some(Signed(a.neg # b.neg, NMul(a.m, b.m))) ELSE None

\* i64 division by a positive divisor: the quotient truncated toward zero
i64_div(a, b) == Signed(a.neg, NDivMod(a.m, b.m).q)

convert_decimals_factor(v, diff, factor) ==
    IF ~factor.ok THEN factor
    ELSE IF diff > 0 THEN ok_or(i64_checked_mul(v, factor.v), "Overflow")
    ELSE Ok(i64_div(v, factor.v))

convert_decimals(v, from, to) ==
    IF value(to) - value(from) = 0 THEN Ok(v)
    ELSE convert_decimals_factor(v, value(to) - value(from),
             ok_or(i64_checked_pow10(IF value(to) >= value(from)
                                     THEN value(to) - value(from)
                                     ELSE value(from) - value(to)), "Overflow"))

(***************************************************************************)
(* The calls of the adapters and of convert_decimals the model makes:      *)
(* amounts in tenths of a token up to MaxAmount tenths, the ends of the    *)
(* 96-bit, 128-bit and 256-bit ranges, and decimal settings up to 255      *)
(***************************************************************************)
MaxAmount == 12

U256Values ==
    {NShl(NFromInt(k), 17) : k \in 0..MaxAmount}
    \cup {NFromInt(k) : k \in 1..MaxAmount}
    \cup {MaxMantissa, Pow2_96, NSub(Pow2_128, <<1>>), Pow2_128,
          NAdd(Pow2_128, NShl(<<3>>, 18)), NShl(<<1>>, 39), NShl(<<1>>, 47),
          NSub(Pow2_256, <<1>>)}

DecimalValues ==
    {DecimalNew(n, s) : n \in (-MaxAmount)..MaxAmount, s \in {0, 1, 19}}
    \cup {MAX, MIN, Dec(FALSE, <<2514, 2816, 792>>, 0), Dec(FALSE, <<2515, 2816, 792>>, 0),
          Dec(FALSE, MaxMantissa, 18), Dec(FALSE, MaxMantissa, 28)}

DecimalSettings == {Six, Eight, Eighteen, Custom(0), Custom(19), Custom(27), Custom(255)}

U256ToDecimalCall ==
    /\ calc.pc = "idle"
    /\ \E u \in U256Values :
         calc' = CalcDone("u256_to_decimal", <<u>>, <<>>, u256_to_decimal(u))
    /\ UNCHANGED <<solver, iv, curve>>

DecimalToU256Call ==
    /\ calc.pc = "idle"
    /\ \E d \in DecimalValues :
         calc' = CalcDone("decimal_to_u256", <<d>>, <<>>, decimal_to_u256(d))
    /\ UNCHANGED <<solver, iv, curve>>

ConvertDecimalsCall ==
    /\ calc.pc = "idle"
    /\ \E v \in RawValues, from \in DecimalSettings, to \in DecimalSettings :
         calc' = CalcDone("convert_decimals", <<v, from, to>>, <<>>,
                          convert_decimals(v, from, to))
    /\ UNCHANGED <<solver, iv, curve>>

NextConvert ==
    \/ U256ToDecimalCall
    \/ DecimalToU256Call
    \/ ConvertDecimalsCall
    \/ CalcReturn

SpecConvert == InitCalc /\ [][NextConvert]_vars

U256Returned == calc.pc = "done" /\ calc.op = "u256_to_decimal"

\* u / 10^18 exactly: a mantissa of any width at scale 18
Quotient(u) == Dec(FALSE, u, 18)

\* C13: u256_to_decimal is total over the unsigned 256-bit integers: it
\* never aborts, returns value / 10^18 when a Decimal can hold that, and
\* Decimal::MAX otherwise. The code keeps the low 128 bits only and
\* converts them with a From that panics above 96 bits.
C13_U256ToDecimalTotal ==
    U256Returned =>
        /\ ~IsPanic(calc.ret)
        /\ IF Representable(Quotient(calc.args[1]))
           THEN Eq(calc.ret, Quotient(calc.args[1]))
           ELSE calc.ret = MAX

\* the call on 2^96, the least amount over 96 bits, ended in the panic
C13_Witness ==
    /\ U256Returned
    /\ calc.args[1] = Pow2_96
    /\ IsPanic(calc.ret)

DecimalToU256Returned == calc.pc = "done" /\ calc.op = "decimal_to_u256"

\* d * 10^18 exactly: a mantissa of any width
Product(d) == Dec(d.neg, NShl(d.m, 18), d.scale)

\* value * SCALE overflows: it is beyond Decimal::MAX in magnitude
ProductOverflows(d) == Gt(abs(Product(d)), MAX)

\* a result that carries an error
FailedU256(r) == "ok" \in DOMAIN r /\ ~r.ok

\* C14: decimal_to_u256 fails with an error whenever the Decimal is negative
\* or value * SCALE overflows, and otherwise returns value * 10^18 truncated
\* toward zero. The code returns a U256 in every case: the magnitude of a
\* negative value, and Decimal::MAX's mantissa on overflow.
C14_DecimalToU256Checked ==
    DecimalToU256Returned =>
        IF is_negative(calc.args[1]) \/ ProductOverflows(calc.args[1])
        THEN FailedU256(calc.ret)
        ELSE calc.ret = U256From(round_toward_zero(Product(calc.args[1]), 0).m)

\* the call on -1.2 returned the integer of +1.2
C14_Witness ==
    /\ DecimalToU256Returned
    /\ calc.args[1] = DecimalNew(-12, 1)
    /\ calc.ret = U256From(NShl(<<12>>, 17))

\* the part of C14 the code keeps: a non-negative value whose product fits
\* gives value * 10^18 truncated toward zero
DecimalToU256Truncates ==
    (/\ DecimalToU256Returned
     /\ ~is_negative(calc.args[1])
     /\ ~ProductOverflows(calc.args[1]))
        => calc.ret = U256From(round_toward_zero(Product(calc.args[1]), 0).m)

(***************************************************************************)
(* Tolerance predicates (precision-core/src/tolerance.rs).  A predicate    *)
(* returns a boolean, carried in a record, or ends in the panic of the     *)
(* wrapper's operator -                                                    *)
(***************************************************************************)
Bool(b) == [bool |-> b]

\* Sub for Decimal: self.checked_sub(other).expect("decimal overflow")
sub(a, b) == expect(checked_sub(a, b), "decimal overflow")

ONE_HUNDRED == DecimalFrom(100)

approx_eq_diff(diff, tolerance) ==
    IF IsPanic(diff) THEN diff ELSE Bool(Le(diff, tolerance))

approx_eq(a, b, tolerance) ==
    approx_eq_diff(IF Ge(a, b) THEN sub(a, b) ELSE sub(b, a), tolerance)

\* match threshold { Some(t) => diff <= t, None => false }
within_threshold(diff, threshold) ==
    Bool(threshold.some /\ Le(diff, threshold.v))

relative_max_abs(diff, max_abs, relative_tolerance) ==
    IF is_zero(max_abs) THEN Bool(is_zero(diff))
    ELSE within_threshold(diff, checked_mul(max_abs, relative_tolerance))

relative_diff(a, b, relative_tolerance, diff) ==
    IF IsPanic(diff) THEN diff
    ELSE relative_max_abs(abs(diff), max(abs(a), abs(b)), relative_tolerance)

approx_eq_relative(a, b, relative_tolerance) ==
    IF Eq(a, b) THEN Bool(TRUE)
    ELSE relative_diff(a, b, relative_tolerance, sub(a, b))

\* first || second
ulps_or(first, a, b, relative_tolerance) ==
    IF IsPanic(first) \/ first.bool THEN first
    ELSE approx_eq_relative(a, b, relative_tolerance)

approx_eq_ulps(a, b, absolute_tolerance, relative_tolerance) ==
    ulps_or(approx_eq(a, b, absolute_tolerance), a, b, relative_tolerance)

\* o.and_then(|v| v.checked_div(d))
and_then_div(o, d) == IF o.some THEN checked_div(o.v, d) ELSE None

within_diff(diff, threshold) ==
    IF IsPanic(diff) THEN diff ELSE within_threshold(abs(diff), threshold)

within_percentage(a, b, percentage) ==
    IF is_zero(b) THEN Bool(is_zero(a))
    ELSE within_diff(sub(a, b),
                     and_then_div(checked_mul(abs(b), percentage), ONE_HUNDRED))

within_basis_points(a, b, bps) ==
    IF is_zero(b) THEN Bool(is_zero(a))
    ELSE within_diff(sub(a, b),
                     and_then_div(checked_mul(abs(b), bps), DecimalNew(10000, 0)))

(***************************************************************************)
(* The calls of the predicates the model makes: operands from zero to      *)
(* MaxOperand, their negatives, a value 10^27 that a percentage of 50      *)
(* still fits, and Decimal::MAX and MIN                                    *)
(***************************************************************************)
MaxOperand == 3

Operands ==
    {DecimalFrom(n) : n \in (-MaxOperand)..MaxOperand}
    \cup {DecimalNew(995, 1), DecimalFrom(100), Dec(FALSE, NShl(<<1>>, 27), 0),
          DecimalNew(1, 28), MAX, MIN}

ToleranceArgs ==
    {ZERO, DecimalNew(5, 1), ONE, DecimalFrom(50), DecimalFrom(-1), DecimalNew(1, 28), MAX}

ApproxEqCall ==
    /\ calc.pc = "idle"
    /\ \E a \in Operands, b \in Operands, t \in ToleranceArgs :
         calc' = CalcDone("approx_eq", <<a, b, t>>, <<>>, approx_eq(a, b, t))
    /\ UNCHANGED <<solver, iv, curve>>

ApproxEqRelativeCall ==
    /\ calc.pc = "idle"
    /\ \E a \in Operands, b \in Operands, t \in ToleranceArgs :
         calc' = CalcDone("approx_eq_relative", <<a, b, t>>, <<>>,
                          approx_eq_relative(a, b, t))
    /\ UNCHANGED <<solver, iv, curve>>

ApproxEqUlpsCall ==
    /\ calc.pc = "idle"
    /\ \E a \in Operands, b \in Operands, t \in {ZERO, ONE}, r \in ToleranceArgs :
         calc' = CalcDone("approx_eq_ulps", <<a, b, t, r>>, <<>>,
                          approx_eq_ulps(a, b, t, r))
    /\ UNCHANGED <<solver, iv, curve>>

WithinPercentageCall ==
    /\ calc.pc = "idle"
    /\ \E a \in Operands, b \in Operands, t \in ToleranceArgs :
         calc' = CalcDone("within_percentage", <<a, b, t>>, <<>>,
                          within_percentage(a, b, t))
    /\ UNCHANGED <<solver, iv, curve>>

WithinBasisPointsCall ==
    /\ calc.pc = "idle"
    /\ \E a \in Operands, b \in Operands, t \in ToleranceArgs :
         calc' = CalcDone("within_basis_points", <<a, b, t>>, <<>>,
                          within_basis_points(a, b, t))
    /\ UNCHANGED <<solver, iv, curve>>

NextTolerance ==
    \/ ApproxEqCall
    \/ ApproxEqRelativeCall
    \/ ApproxEqUlpsCall
    \/ WithinPercentageCall
    \/ WithinBasisPointsCall
    \/ CalcReturn

SpecTolerance == InitCalc /\ [][NextTolerance]_vars

PredicateReturned ==
    /\ calc.pc = "done"
    /\ calc.op \in {"approx_eq", "approx_eq_relative", "approx_eq_ulps",
                    "within_percentage", "within_basis_points"}

\* C15: each of the five tolerance predicates is total: for every
\* combination of Decimal arguments, a and b near MAX and MIN with opposite
\* signs included, it returns a boolean and never aborts. The code takes
\* a - b with the panicking operator.
C15_PredicatesTotal ==
    PredicateReturned => (~IsPanic(calc.ret) /\ calc.ret.bool \in BOOLEAN)

\* approx_eq on MAX and MIN ended in the panic of the subtraction
C15_Witness ==
    /\ PredicateReturned
    /\ calc.op = "approx_eq"
    /\ calc.args[1] = MAX
    /\ calc.args[2] = MIN
    /\ calc.ret = Panic("decimal overflow")

\* C16: the percentage and basis-point predicates agree at bps = pct * 100:
\* where pct * 100 is representable,
\* within_percentage(a, b, pct) = within_basis_points(a, b, pct * 100).
\* |b| * pct * 100 can overflow where |b| * pct does not, and then the
\* basis-point predicate answers false.
C16_PercentageAgreesWithBps ==
    (/\ calc.pc = "done"
     /\ calc.op = "within_percentage"
     /\ checked_mul(calc.args[3], ONE_HUNDRED).some)
        => calc.ret = within_basis_points(calc.args[1], calc.args[2],
                          checked_mul(calc.args[3], ONE_HUNDRED).v)

\* 10^27 is within 50 percent of itself
C16_Witness ==
    /\ calc.pc = "done"
    /\ calc.op = "within_percentage"
    /\ calc.args = <<Dec(FALSE, NShl(<<1>>, 27), 0), Dec(FALSE, NShl(<<1>>, 27), 0),
                     DecimalFrom(50)>>
    /\ calc.ret = Bool(TRUE)
    /\ within_basis_points(calc.args[1], calc.args[2], DecimalFrom(5000)) = Bool(FALSE)

\* a returned call of convert_decimals to fewer decimals
NarrowingReturned ==
    /\ calc.pc = "done"
    /\ calc.op = "convert_decimals"
    /\ value(calc.args[3]) < value(calc.args[2])

\* v / 10^k with the quotient truncated toward zero
Narrowed(v, k) == Signed(v.neg, NShr(v.m, k))

\* C17: convert_decimals is total when narrowing: for every i64 value and
\* every pair of settings with to < from, Custom settings up to 255
\* included, it returns Ok(value / 10^(from - to)), truncated toward zero.
\* The code computes 10^(from - to) as an i64 first and fails with Overflow
\* from 19 digits of difference on.
C17_NarrowingTotal ==
    NarrowingReturned =>
        calc.ret = Ok(Narrowed(calc.args[1],
                               value(calc.args[2]) - value(calc.args[3])))

\* narrowing 1 from 19 decimals to none failed with Overflow
C17_Witness ==
    /\ NarrowingReturned
    /\ calc.args = <<Signed(FALSE, <<1>>), Custom(19), Custom(0)>>
    /\ calc.ret = Err("Overflow")

\* the part of C17 the code keeps: narrowing by at most 18 digits
NarrowingWithinI64 ==
    (NarrowingReturned /\ value(calc.args[2]) - value(calc.args[3]) <= 18)
        => calc.ret = Ok(Narrowed(calc.args[1],
                                  value(calc.args[2]) - value(calc.args[3])))

(***************************************************************************)
(* Constant-product swaps, price impact and ticks                          *)
(* (financial-calc/src/amm.rs)                                             *)
(***************************************************************************)
MIN_TICK == -887272

MAX_TICK == 887272

BPS_BASE == DecimalFrom(10000)

\* numerator / (reserve_in * 10000 + amount_in * (10000 - fee_bps))
swap_output_fee(reserve_in, reserve_out, amount_in_with_fee) ==
    IF ~amount_in_with_fee.ok THEN amount_in_with_fee
    ELSE RDiv(try_mul(reserve_out, amount_in_with_fee.v),
              RAdd(try_mul(reserve_in, BPS_BASE), amount_in_with_fee))

calculate_swap_output(reserve_in, reserve_out, amount_in, fee_bps) ==
    swap_output_fee(reserve_in, reserve_out,
                    RMul(Ok(amount_in), try_sub(BPS_BASE, fee_bps)))

\* reserve_in * amount_out * 10000 / ((reserve_out - amount_out) * fee_factor) + 1
swap_input_fee(reserve_in, reserve_out, amount_out, fee_factor) ==
    IF ~fee_factor.ok THEN fee_factor
    ELSE RAdd(RDiv(RMul(try_mul(reserve_in, amount_out), Ok(BPS_BASE)),
                   RMul(try_sub(reserve_out, amount_out), fee_factor)),
              Ok(ONE))

calculate_swap_input(reserve_in, reserve_out, amount_out, fee_bps) ==
    swap_input_fee(reserve_in, reserve_out, amount_out, try_sub(BPS_BASE, fee_bps))

\* (spot - effective) / spot
price_impact_output(spot_price, amount_in, output) ==
    IF ~output.ok THEN output
    ELSE RDiv(RSub(spot_price, try_div(output.v, amount_in)), spot_price)

price_impact_spot(reserve_in, reserve_out, amount_in, spot_price) ==
    IF ~spot_price.ok THEN spot_price
    ELSE price_impact_output(spot_price, amount_in,
             calculate_swap_output(reserve_in, reserve_out, amount_in, ZERO))

calculate_price_impact(reserve_in, reserve_out, amount_in) ==
    price_impact_spot(reserve_in, reserve_out, amount_in,
                      try_div(reserve_out, reserve_in))

\* a magnitude below 2^31 as an integer
NToInt(m) == NLimb(m, 1) + NLimb(m, 2) * Base + NLimb(m, 3) * Base * Base

Pow2_31 == NMul(NFromInt(32768), Pow2_16)

\* the low 32 bits of an i128 as an unsigned magnitude
low_u32(n) ==
    IF n.neg /\ NDivMod(n.m, Pow2_32).r # <<>>
    THEN NSub(Pow2_32, NDivMod(n.m, Pow2_32).r)
    ELSE NDivMod(n.m, Pow2_32).r

\* mantissa as i32: the low 32 bits in two's complement
as_i32(n) ==
    IF NCmp(low_u32(n), Pow2_31) < 0 THEN NToInt(low_u32(n))
    ELSE -NToInt(NSub(Pow2_32, low_u32(n)))

tick_truncated(tick_decimal) ==
    IF ~tick_decimal.ok THEN tick_decimal
    ELSE Ok(as_i32(to_parts(round_toward_zero(tick_decimal.v, 0)).mantissa))

tick_log_price(sqrt_price, log_base) ==
    IF ~log_base.ok THEN log_base
    ELSE tick_truncated(RDiv(try_ln(sqrt_price), log_base))

sqrt_price_to_tick(sqrt_price) ==
    IF Le(sqrt_price, ZERO) THEN Err("LogOfNegative")
    ELSE tick_log_price(sqrt_price, RDiv(try_ln(DecimalNew(10001, 4)), Ok(TWO)))

(***************************************************************************)
(* The calls of the swap functions the model makes: reserves and amounts   *)
(* from fractions of a token up to MaxReserve tokens and at the top of the *)
(* Decimal range, fees from none to all but a fraction of a basis point,   *)
(* and sqrt prices over the whole positive range                           *)
(***************************************************************************)
MaxReserve == 4

Reserves ==
    {DecimalFrom(n) : n \in 1..MaxReserve}
    \cup {DecimalNew(12, 1), DecimalNew(124, 2), DecimalNew(1, 4), DecimalFrom(1000),
          Dec(FALSE, NShl(<<1>>, 17), 0), Dec(FALSE, NShl(<<1>>, 24), 0)}

Amounts ==
    {DecimalFrom(n) : n \in (-1)..MaxReserve}
    \cup {DecimalNew(1, 28), DecimalNew(5, 1), DecimalNew(1, 5), DecimalFrom(10),
          Dec(FALSE, NSub(NShl(<<1>>, 28), <<1>>), 28),
          Dec(FALSE, NShl(<<1>>, 20), 0)}

Fees == {ZERO, DecimalFrom(30), DecimalFrom(9999), Dec(FALSE, <<9999, 9999, 999>>, 7)}

SqrtPrices ==
    {DecimalFrom(n) : n \in (-1)..MaxReserve}
    \cup {DecimalNew(10001, 4), DecimalNew(5, 1), DecimalNew(1, 10), DecimalNew(1, 28),
          Dec(FALSE, NShl(<<1>>, 20), 0), MAX}

SwapInputCall ==
    /\ calc.pc = "idle"
    /\ \E reserve_in \in Reserves, reserve_out \in Reserves, amount_out \in Amounts,
          fee_bps \in Fees :
         calc' = CalcDone("calculate_swap_input",
                          <<reserve_in, reserve_out, amount_out, fee_bps>>, <<>>,
                          calculate_swap_input(reserve_in, reserve_out, amount_out,
                                               fee_bps))
    /\ UNCHANGED <<solver, iv, curve>>

\* the swap of the input just computed, on the same reserves and fee
SwapOutputCall ==
    /\ calc.pc = "done"
    /\ calc.op = "calculate_swap_input"
    /\ calc.ret.ok
    /\ calc' = CalcDone("calculate_swap_output", calc.args, calc.ret.v,
                        calculate_swap_output(calc.args[1], calc.args[2], calc.ret.v,
                                              calc.args[4]))
    /\ UNCHANGED <<solver, iv, curve>>

PriceImpactCall ==
    /\ calc.pc = "idle"
    /\ \E reserve_in \in Reserves, reserve_out \in Reserves, amount_in \in Amounts :
         calc' = CalcDone("calculate_price_impact",
                          <<reserve_in, reserve_out, amount_in>>, <<>>,
                          calculate_price_impact(reserve_in, reserve_out, amount_in))
    /\ UNCHANGED <<solver, iv, curve>>

SqrtPriceToTickCall ==
    /\ calc.pc = "idle"
    /\ \E sqrt_price \in SqrtPrices :
         calc' = CalcDone("sqrt_price_to_tick", <<sqrt_price>>, <<>>,
                          sqrt_price_to_tick(sqrt_price))
    /\ UNCHANGED <<solver, iv, curve>>

NextAmm ==
    \/ SwapInputCall
    \/ SwapOutputCall
    \/ PriceImpactCall
    \/ SqrtPriceToTickCall
    \/ CalcReturn

SpecAmm == InitCalc /\ [][NextAmm]_vars

\* C18: calculate_price_impact never yields a negative value: wherever it
\* returns Ok(v), v >= 0. The code returns (spot - effective) / spot as it
\* is, without a clamp.
C18_PriceImpactNonNegative ==
    (calc.pc = "done" /\ calc.op = "calculate_price_impact" /\ calc.ret.ok)
        => Ge(calc.ret.v, ZERO)

\* calculate_price_impact on reserves 2 and 1 and an amount of -1 returned -1
C18_Witness ==
    /\ calc.pc = "done"
    /\ calc.op = "calculate_price_impact"
    /\ calc.args = <<DecimalFrom(2), ONE, NEGATIVE_ONE>>
    /\ calc.ret = Ok(NEGATIVE_ONE)

\* the arguments of a swap for a target output are valid: positive reserves,
\* 0 <= fee_bps < 10000 and 0 < amount_out < reserve_out
SwapArgsValid(args) ==
    /\ Gt(args[1], ZERO)
    /\ Gt(args[2], ZERO)
    /\ Gt(args[3], ZERO)
    /\ Lt(args[3], args[2])
    /\ Ge(args[4], ZERO)
    /\ Lt(args[4], BPS_BASE)

\* the swap of the input computed for valid arguments has returned: args are
\* those of calculate_swap_input and loc is the input it computed
SwapOutputReturned ==
    calc.pc = "done" /\ calc.op = "calculate_swap_output" /\ SwapArgsValid(calc.args)

\* C19: the swap input is rounded up so that it covers the requested output:
\* for positive reserves, 0 <= fee_bps < 10000 and 0 < amount_out < reserve_out,
\* the calculate_swap_output of calculate_swap_input's result, where both
\* return Ok, is at least amount_out. The products of the output formula are
\* rounded to 96 bits, which can cost more than the added unit buys.
C19_InputCoversOutput ==
    (SwapOutputReturned /\ calc.ret.ok) => Ge(calc.ret.v, calc.args[3])

\* reserves 10^17 and 4, amount_out 3, fee 9999.9999999 bps: the input is
\* 3 * 10^28 + 1 and its swap returns 2.9999999999999999999999999999
C19_Witness ==
    /\ SwapOutputReturned
    /\ calc.args = <<Dec(FALSE, NShl(<<1>>, 17), 0), DecimalFrom(4), DecimalFrom(3),
                     Dec(FALSE, <<9999, 9999, 999>>, 7)>>
    /\ calc.loc = Dec(FALSE, NAdd(NShl(<<3>>, 28), <<1>>), 0)
    /\ calc.ret = Ok(Dec(FALSE, NSub(NShl(<<3>>, 28), <<1>>), 28))

\* a returned call of sqrt_price_to_tick on a positive sqrt price
TickReturned ==
    /\ calc.pc = "done"
    /\ calc.op = "sqrt_price_to_tick"
    /\ Gt(calc.args[1], ZERO)

\* C20: ticks are bounded: for every positive sqrt_price on which
\* sqrt_price_to_tick returns Ok(t), MIN_TICK <= t <= MAX_TICK. The code
\* truncates 2 ln(sqrt_price) / ln(1.0001) and returns it unclamped.
C20_TicksBounded ==
    (TickReturned /\ calc.ret.ok)
        => (MIN_TICK <= calc.ret.v /\ calc.ret.v <= MAX_TICK)

\* the tick of Decimal::MAX is beyond MAX_TICK
C20_Witness ==
    /\ TickReturned
    /\ calc.args[1] = MAX
    /\ calc.ret.ok
    /\ calc.ret.v > MAX_TICK

(***************************************************************************)
(* Day counts (crates/financial-calc/src/day_count.rs)                     *)
(***************************************************************************)

\* i64 / and % of Rust: the quotient is truncated toward zero and the
\* remainder has the sign of the dividend (divisor positive)
quot(a, b) == IF a >= 0 THEN a \div b ELSE -((-a) \div b)

rem(a, b) == a - b * quot(a, b)

Date(year, month, day) == [year |-> year, month |-> month, day |-> day]

is_leap_year(date) ==
    (rem(date.year, 4) = 0 /\ rem(date.year, 100) # 0) \/ rem(date.year, 400) = 0

days_in_year(date) == IF is_leap_year(date) THEN 366 ELSE 365

days_in_month(date) ==
    IF date.month \in {1, 3, 5, 7, 8, 10, 12} THEN 31
    ELSE IF date.month \in {4, 6, 9, 11} THEN 30
    ELSE IF date.month = 2 THEN (IF is_leap_year(date) THEN 29 ELSE 28)
    ELSE 30

\* d + (153 (m_adj - 3) + 2) / 5 + 365 y_adj + y_adj / 4 - y_adj / 100
\*   + y_adj / 400 - 32045
jdn(y_adj, m_adj, d) ==
    d + quot(153 * (m_adj - 3) + 2, 5) + 365 * y_adj + quot(y_adj, 4)
      - quot(y_adj, 100) + quot(y_adj, 400) - 32045

to_day_number(date) ==
    IF date.month <= 2 THEN jdn(date.year - 1, date.month + 12, date.day)
    ELSE jdn(date.year, date.month, date.day)

days_between(self, other) == to_day_number(other) - to_day_number(self)

\* start's day of 31 becomes 30; end's day of 31 becomes 30 always (european)
\* or when start's day is then at least 30 (US)
thirty_360_d1(start) == IF start.day = 31 THEN 30 ELSE start.day

thirty_360_d2(start, end, european) ==
    IF end.day = 31 /\ (european \/ thirty_360_d1(start) >= 30) THEN 30 ELSE end.day

thirty_360_days(start, end, european) ==
    DecimalFrom(360 * (end.year - start.year) + 30 * (end.month - start.month)
                + (thirty_360_d2(start, end, european) - thirty_360_d1(start)))

\* u32 division: (start.days_in_year() + end.days_in_year()) / 2
avg_days(start, end) == (days_in_year(start) + days_in_year(end)) \div 2

year_fraction(convention, start, end) ==
    CASE convention = "Actual360" ->
           try_div(DecimalFrom(days_between(start, end)), DecimalFrom(360))
      [] convention = "Actual365Fixed" ->
           try_div(DecimalFrom(days_between(start, end)), DecimalFrom(365))
      [] convention = "ActualActual" ->
           try_div(DecimalFrom(days_between(start, end)),
                   DecimalFrom(avg_days(start, end)))
      [] convention = "Thirty360" ->
           try_div(thirty_360_days(start, end, FALSE), DecimalFrom(360))
      [] convention = "Thirty360E" ->
           try_div(thirty_360_days(start, end, TRUE), DecimalFrom(360))

DayCountConvention ==
    {"Actual360", "Actual365Fixed", "ActualActual", "Thirty360", "Thirty360E"}

\* the years of the dates: YearSpan years on either side of year 0, of the
\* century years 1900 and 2000 and of the leap year 2024
YearSpan == 1

Years ==
    UNION {(c - YearSpan)..(c + YearSpan) : c \in {0, 1900, 2000, 2024}}

\* the valid dates of the proleptic Gregorian calendar in those years
Dates ==
    {date \in [year : Years, month : 1..12, day : 1..31] :
        date.day <= days_in_month(date)}

\* the calendar successor of a valid date
Successor(date) ==
    IF date.day < days_in_month(date) THEN Date(date.year, date.month, date.day + 1)
    ELSE IF date.month < 12 THEN Date(date.year, date.month + 1, 1)
    ELSE Date(date.year + 1, 1, 1)

\* the ends of the year fractions: the first and last days of the years and
\* the days around the end of February
Ends ==
    {date \in Dates : \/ date.month = 1 /\ date.day = 1
                      \/ date.month = 12 /\ date.day = 31
                      \/ date.month = 2 /\ date.day >= 28
                      \/ date.month = 3 /\ date.day = 1}

ToDayNumberCall ==
    /\ calc.pc = "idle"
    /\ \E date \in Dates :
         calc' = CalcDone("to_day_number", <<date>>, <<>>, to_day_number(date))
    /\ UNCHANGED <<solver, iv, curve>>

\* days_between from a date to its calendar successor, or between two ends
DaysBetweenCall ==
    /\ calc.pc = "idle"
    /\ \E self \in Dates :
       \E other \in {Successor(self)} \cup (IF self \in Ends THEN Ends ELSE {}) :
         calc' = CalcDone("days_between", <<self, other>>, <<>>,
                          days_between(self, other))
    /\ UNCHANGED <<solver, iv, curve>>

YearFractionCall ==
    /\ calc.pc = "idle"
    /\ \E convention \in DayCountConvention, start \in Ends, end \in Ends :
         calc' = CalcDone("year_fraction", <<convention, start, end>>, <<>>,
                          year_fraction(convention, start, end))
    /\ UNCHANGED <<solver, iv, curve>>

NextDayCount ==
    \/ ToDayNumberCall
    \/ DaysBetweenCall
    \/ YearFractionCall
    \/ CalcReturn

SpecDayCount == InitCalc /\ [][NextDayCount]_vars

\* a returned year_fraction under the ActualActual convention
ActualActualReturned ==
    /\ calc.pc = "done"
    /\ calc.op = "year_fraction"
    /\ calc.args[1] = "ActualActual"

\* the exact average of the two years' lengths: 365, 365.5 or 366
ExactAverage(start, end) == DecimalNew(5 * (days_in_year(start) + days_in_year(end)), 1)

\* days_between(start, end) divided by the exact average
ExactFraction(start, end) ==
    try_div(DecimalFrom(days_between(start, end)), ExactAverage(start, end))

\* C21: for the ActualActual convention, year_fraction(start, end) equals
\* days_between(start, end) divided by the exact average of the two years'
\* lengths: 365, 366, or 365.5 when exactly one of the years is a leap year.
\* The code averages in u32, so 365.5 becomes 365.
C21_ActualActualExactAverage ==
    ActualActualReturned
        => /\ calc.ret.ok
           /\ ExactFraction(calc.args[2], calc.args[3]).ok
           /\ Eq(calc.ret.v, ExactFraction(calc.args[2], calc.args[3]).v)

\* one day from 2023-12-31 to 2024-01-01: the fraction returned is 1 / 365
C21_Witness ==
    /\ ActualActualReturned
    /\ calc.args[2] = Date(2023, 12, 31)
    /\ calc.args[3] = Date(2024, 1, 1)
    /\ calc.ret = try_div(ONE, DecimalFrom(365))
    /\ ~Eq(calc.ret.v, ExactFraction(calc.args[2], calc.args[3]).v)

\* where both years have the same length the fraction is the exact one
ActualActualSameLength ==
    (ActualActualReturned /\ days_in_year(calc.args[2]) = days_in_year(calc.args[3]))
        => /\ calc.ret.ok
           /\ Eq(calc.ret.v, ExactFraction(calc.args[2], calc.args[3]).v)

\* days_between from a valid date to its calendar successor has returned
SuccessorReturned ==
    /\ calc.pc = "done"
    /\ calc.op = "days_between"
    /\ calc.args[2] = Successor(calc.args[1])

\* C22: days_between is the true number of calendar days in the proleptic
\* Gregorian calendar for valid dates of any year: it is exactly 1 from
\* every valid date to its calendar successor. The code's divisions of the
\* adjusted year truncate toward zero, which differs from the floor the
\* formula needs once the adjusted year is negative.
C22_SuccessorIsOneDay ==
    SuccessorReturned => calc.ret = 1

\* from 0000-02-29 to 0000-03-01 days_between returns 0
C22_Witness ==
    /\ SuccessorReturned
    /\ calc.args[1] = Date(0, 2, 29)
    /\ calc.args[2] = Date(0, 3, 1)
    /\ calc.ret = 0

\* from March of year 0 on, the adjusted year is not negative and the
\* successor is one day on
SuccessorIsOneDayFromYearZero ==
    (SuccessorReturned
       /\ (calc.args[1].year >= 1 \/ (calc.args[1].year = 0 /\ calc.args[1].month >= 3)))
        => calc.ret = 1

(***************************************************************************)
(* Funding rate (crates/financial-calc/src/derivatives.rs)                 *)
(***************************************************************************)

FundingParams(mark_price, index_price, interest_rate, premium_cap, hours) ==
    [mark_price |-> mark_price, index_price |-> index_price,
     interest_rate |-> interest_rate, premium_cap |-> premium_cap,
     funding_interval_hours |-> hours]

\* a clamp that forgets the lower side
capped_above(raw_rate, premium_cap) ==
    IF Gt(raw_rate, premium_cap) THEN premium_cap ELSE raw_rate

\* (mark - index) / index
funding_premium(params) ==
    RDiv(try_sub(params.mark_price, params.index_price), Ok(params.index_price))

\* interest_rate * funding_interval_hours / 8760
interval_interest(params) ==
    RDiv(try_mul(params.interest_rate, params.funding_interval_hours),
         Ok(DecimalFrom(8760)))

raw_rate(params) == RAdd(funding_premium(params), interval_interest(params))

capped_rate(raw, premium_cap) ==
    IF Gt(raw, premium_cap) THEN premium_cap
    ELSE IF Lt(raw, Neg(premium_cap)) THEN Neg(premium_cap)
    ELSE raw

calculate_funding_rate(params) ==
    IF ~raw_rate(params).ok THEN raw_rate(params)
    ELSE Ok(capped_rate(raw_rate(params).v, params.premium_cap))

\* the funding intervals run from 0 to MaxIntervalHours hours
MaxIntervalHours == 8

MarkPrices ==
    {DecimalFrom(1900), DecimalFrom(1999), DecimalFrom(2000), DecimalFrom(2020),
     DecimalFrom(2100), MAX}

IndexPrices == {DecimalFrom(2000), ZERO, DecimalNew(1, 28), DecimalFrom(-2000)}

InterestRates == {ZERO, DecimalNew(1, 1), DecimalNew(-1, 1), DecimalFrom(100), MAX}

PremiumCaps == {ZERO, DecimalNew(1, 2), DecimalNew(5, 4), DecimalNew(-1, 2), MAX}

FundingRateCall ==
    /\ calc.pc = "idle"
    /\ \E mark_price \in MarkPrices, index_price \in IndexPrices,
          interest_rate \in InterestRates, premium_cap \in PremiumCaps,
          hours \in 0..MaxIntervalHours :
         LET params == FundingParams(mark_price, index_price, interest_rate,
                                     premium_cap, DecimalFrom(hours))
         IN  calc' = CalcDone("calculate_funding_rate", <<params>>, raw_rate(params),
                              calculate_funding_rate(params))
    /\ UNCHANGED <<solver, iv, curve>>

NextFunding ==
    \/ FundingRateCall
    \/ CalcReturn

SpecFunding == InitCalc /\ [][NextFunding]_vars

\* calculate_funding_rate returned Ok for a premium cap that is not negative
FundingReturned ==
    /\ calc.pc = "done"
    /\ calc.op = "calculate_funding_rate"
    /\ Ge(calc.args[1].premium_cap, ZERO)
    /\ calc.ret.ok

\* C23: for premium_cap >= 0, whenever calculate_funding_rate returns Ok(r),
\* r is raw = (mark - index) / index + interest_rate * interval_hours / 8760
\* clamped into [-premium_cap, +premium_cap]: r is raw when raw is within the
\* caps, the cap it passed otherwise, and so -premium_cap <= r <= premium_cap.
C23_FundingRateClamped ==
    FundingReturned
        => /\ calc.loc.ok
           /\ Le(Neg(calc.args[1].premium_cap), calc.ret.v)
           /\ Le(calc.ret.v, calc.args[1].premium_cap)
           /\ Eq(calc.ret.v,
                 max(Neg(calc.args[1].premium_cap),
                     min(calc.loc.v, calc.args[1].premium_cap)))

\* the premium of -5% of a mark of 1900 against an index of 2000 is cut to the
\* lower cap of -1%
C23_Witness ==
    /\ FundingReturned
    /\ calc.args[1] = FundingParams(DecimalFrom(1900), DecimalFrom(2000), ZERO,
                                    DecimalNew(1, 2), DecimalFrom(8))
    /\ Eq(calc.loc.v, DecimalNew(-5, 2))
    /\ Eq(calc.ret.v, DecimalNew(-1, 2))

\* implied_volatility has returned a value
IvReturned == iv.pc = "done" /\ iv.result.ok

\* C24: every value implied_volatility returns lies in [0.01, 5.0], whichever
\* way the iteration ends: tolerance met, vega below 1e-8, iteration cap
\* reached, or max_iterations = 0.
C24_VolatilityWithinRange ==
    IvReturned
        => /\ Ge(iv.result.v, DecimalNew(1, 2))
           /\ Le(iv.result.v, DecimalFrom(5))

\* a call that made a Newton update and returned at the cap with the
\* estimate held at the upper end of the range
C24_Witness ==
    /\ IvReturned
    /\ iv.exit = "cap"
    /\ iv.i > 0
    /\ iv.result.v = DecimalFrom(5)

\* the solver is inside its loop before and after the step
PassMade == solver.pc = "loop" /\ solver'.pc = "loop"

\* the counts of a call stay within the cap: the passes counted never exceed
\* max, and f has been called at most once per pass and three times more
\* (the two ends of a bracket or the two first points, and the last midpoint)
WithinCap ==
    /\ solver.iterations <= solver.max
    /\ solver.evals <= solver.iterations + 3
    /\ (solver.pc = "done" /\ solver.result.ok)
          => solver.result.v.iterations <= solver.max

\* C25: every solver call terminates after at most max_iter loop iterations
\* (100 when max_iter is None): every pass that stays in the loop counts one
\* iteration, the count never exceeds max_iter and neither does the returned
\* iterations field, and f is evaluated at most max_iter + 3 times.
C25_SolversBounded ==
    /\ []WithinCap
    /\ [][PassMade => solver'.iterations = solver.iterations + 1]_vars

\* bisection under the default cap: 100 passes, and f called 103 times
C25_Witness ==
    /\ solver.pc = "done"
    /\ solver.method = "bisection"
    /\ solver.max = DEFAULT_MAX_ITER
    /\ solver.result.ok
    /\ solver.result.v.iterations = DEFAULT_MAX_ITER
    /\ solver.evals = DEFAULT_MAX_ITER + 3

\* bisection is inside its loop or has returned from it or from after it
BisectionIterating ==
    /\ solver.method = "bisection"
    /\ solver.pc \in {"loop", "done"}
    /\ solver.w # <<>>

\* x lies between p and q, whichever of them is the larger
Between(x, p, q) == Le(min(p, q), x) /\ Le(x, max(p, q))

\* the working interval has no end values of the same strict sign
ValidBracket(s) ==
    /\ F(s.f, s.w.a).ok
    /\ F(s.f, s.w.b).ok
    /\ ~SameSign(F(s.f, s.w.a).v, F(s.f, s.w.b).v)

\* C27: bisection keeps a valid bracket at every iteration: f(a) and f(b) of
\* the working interval never have the same strict sign, the interval stays
\* inside the original one, and a root returned with converged = true lies
\* within it. The halving compares is_positive of f(a) and f(mid), which
\* takes a zero f(a) for a negative value.
C27_BisectionKeepsBracket ==
    BisectionIterating
        => /\ ValidBracket(solver)
           /\ Between(solver.w.a, solver.arg[1], solver.arg[2])
           /\ Between(solver.w.b, solver.arg[1], solver.arg[2])
           /\ (solver.pc = "done" /\ solver.result.ok /\ solver.result.v.converged)
                 => Between(solver.result.v.root, solver.w.a, solver.w.b)

\* bisection of x^3 - 8 from a = 2, where f is zero, to b = 1: it returns
\* converged = true from an interval with f negative at both ends
C27_Witness ==
    /\ BisectionIterating
    /\ solver.f = "cube8"
    /\ solver.arg = <<DecimalFrom(2), DecimalFrom(1)>>
    /\ solver.pc = "done"
    /\ solver.result.ok
    /\ solver.result.v.converged
    /\ Lt(F(solver.f, solver.w.a).v, ZERO)
    /\ Lt(F(solver.f, solver.w.b).v, ZERO)
    /\ Lt(solver.result.v.residual, DecimalFrom(-6))

\* where neither end value of the call is zero the bracket stays valid
BracketKeptFromNonZeroEnds ==
    (BisectionIterating /\ ~is_zero(EndValue(1)) /\ ~is_zero(EndValue(2)))
        => ValidBracket(solver)

\* bisection, brent or secant returned converged = false with the iteration
\* count at the cap
CapReached ==
    /\ solver.pc = "done"
    /\ solver.method \in {"bisection", "brent", "secant"}
    /\ solver.result.ok
    /\ ~solver.result.v.converged
    /\ solver.result.v.iterations >= solver.max

\* C28: the converged flag agrees with the residual at the iteration cap: a
\* result returned with converged = false by bisection, brent or secant
\* because max_iter was reached never has |residual| < tolerance. The code
\* after the loops returns the last estimate without testing it.
C28_FlagAgreesWithResidual ==
    CapReached => ~Lt(abs(solver.result.v.residual), solver.tol)

\* secant of x^3 - 8 whose last pass under the cap lands within the
\* tolerance of the root: the result says converged = false
C28_Witness ==
    /\ CapReached
    /\ solver.method = "secant"
    /\ solver.max > 0
    /\ Lt(abs(solver.result.v.residual), solver.tol)

(***************************************************************************)
(* Properties of the spline's computed flag and of insertions              *)
(***************************************************************************)
\* the second derivatives are those compute gives for the points stored now
Fresh(c) ==
    /\ compute(c).result.ok
    /\ compute(c).second_derivs = c.second_derivs

\* the spline is marked computed only with fresh second derivatives, and
\* interpolate returns a value only from a spline marked computed
EvaluatesFresh ==
    curve.kind = "CubicSpline"
        => /\ curve.computed => Fresh(curve)
           /\ (curve.op = "interpolate" /\ curve.result.ok) => curve.computed

\* a successful add_point clears the flag, and only a successful compute
\* sets it
FlagFollowsCalls ==
    curve.kind = "CubicSpline"
        => /\ (curve'.op = "add_point" /\ curve'.result.ok) => ~curve'.computed
           /\ (curve'.computed /\ ~curve.computed)
                 => (curve'.op = "compute" /\ curve'.result.ok)

\* C26: a successful CubicSpline::add_point after compute invalidates the
\* spline: interpolate fails for every x until compute succeeds again, so
\* interpolate never evaluates with second derivatives that were computed
\* for an earlier point set.
C26_AddPointInvalidates ==
    /\ []EvaluatesFresh
    /\ [][FlagFollowsCalls]_vars

\* interpolate has failed, inside the range of the points, on a spline that
\* was computed and then took another point
C26_Witness ==
    /\ curve.kind = "CubicSpline"
    /\ curve.op = "interpolate"
    /\ curve.succeeded
    /\ ~curve.computed
    /\ curve.count >= 3
    /\ curve.second_derivs[1] # ZERO
    /\ curve.result = Err("DivisionByZero")

\* the step is a call of add_point or add_node on a container
Insertion == curve.kind # "none" /\ curve'.op \in {"add_point", "add_node"}

\* C29: a rejected insertion changes nothing: when add_node / add_point
\* returns an error (Overflow on a full container, or the LogLinear rejection
\* of y <= 0), the container has the same count and the same stored entries
\* as before the call, and a CubicSpline keeps its computed flag and second
\* derivatives: the call leaves nothing behind but its result.
C29_RejectedInsertionChangesNothing ==
    [][(Insertion /\ ~curve'.result.ok)
          => curve' = Called(curve, curve'.op, curve'.result)]_vars

\* a full spline, with the second derivatives computed when it held fewer
\* points, has refused a point
C29_Witness ==
    /\ curve.kind = "CubicSpline"
    /\ curve.op = "add_point"
    /\ curve.result = Err("Overflow")
    /\ curve.count = MAX_INTERP_POINTS
    /\ curve.succeeded
    /\ curve.second_derivs[1] # ZERO

\* the stored entries of a container as a bag
Stored(c) ==
    LET held == {i \in 0..(c.count - 1) : SlotsOf(c)[i].some}
        entries == {SlotsOf(c)[i].v : i \in held}
    IN  [e \in entries |-> Cardinality({i \in held : SlotsOf(c)[i].v = e})]

\* a bag with one more copy of the entry e
WithEntry(bag, e) ==
    [x \in DOMAIN bag \cup {e} |->
        (IF x \in DOMAIN bag THEN bag[x] ELSE 0) + (IF x = e THEN 1 ELSE 0)]

\* the entries the model inserts into containers of the kind of c
Entries(c) ==
    IF c.kind = "PiecewiseTermStructure" THEN {Node(t) : t \in 1..MaxX}
    ELSE {Point(x) : x \in 1..MaxX}

\* C30: a successful insertion adds exactly the new entry and loses none:
\* after add_node / add_point returns Ok, count has grown by exactly 1 and
\* the multiset of stored entries is the previous multiset plus the inserted
\* entry.
C30_InsertionAddsOneEntry ==
    [][(Insertion /\ curve'.result.ok)
          => /\ curve'.count = curve.count + 1
             /\ \E entry \in Entries(curve) :
                   Stored(curve') = WithEntry(Stored(curve), entry)]_vars

\* a term structure that holds every key once, the smallest in front, and
\* whose last insertion succeeded
C30_Witness ==
    /\ curve.kind = "PiecewiseTermStructure"
    /\ curve.op = "add_node"
    /\ curve.result.ok
    /\ curve.count = MaxX
    /\ \A t \in 1..MaxX : curve.nodes[t - 1] = Some(Node(t))

=============================================================================
